---- MODULE Spec2Model ----
(***************************************************************************)
(* Verification model of the stock news analysis pipeline:                 *)
(*   - the job lifecycle (execute: setup, hooks, run, cleanup) as used by  *)
(*     StockAnalysisJob and StockTrackerJob,                               *)
(*   - the provider cascade and title deduplication of StockAnalysisJob,   *)
(*   - SentimentAnalyzer.aggregate_sentiment,                              *)
(*   - ArticleContentFetcher.fetch_multiple_contents and its batches,      *)
(*   - the per-ticker loop and the notification fan-out of                 *)
(*     StockTrackerJob, and search_news of the three provider clients.     *)
(* The Job base class (package interfaces) is not part of the sources; its *)
(* execute()/register_cleanup()/cleanup_resources() are modelled from the  *)
(* written specification (section 4.1) and are named Job... below.         *)
(***************************************************************************)
EXTENDS Integers, Sequences, FiniteSets, TLC

VARIABLES
    kind,          \* which Job subclass this execution is
    status,        \* Job.status
    pc,            \* position of execute()
    components,    \* attributes of the job that are not None
    open,          \* external resources currently held
    acquired,      \* external resources ever acquired in this execution
    registered,    \* cleanup callbacks, in registration order
    pending,       \* callbacks the cleanup phase still has to invoke
    invoked,       \* callbacks invoked so far, in invocation order
    cbFailed,      \* callbacks whose invocation raised
    error,         \* stage whose exception execute() caught ("none")
    outcome,       \* what execute() returned ("none" while running)
    stages,        \* stages entered so far, in order
    statusLog,     \* every value status has had, in order
    articles,      \* StockAnalysisJob.articles (raw titles)
    fetched,       \* provider calls made: <<[p, res]>> in call order
    enrichCalls,   \* pools handed to fetch_multiple_contents
    classifyCalls, \* pools handed to analyze_multiple
    summarizeCalls, \* pools handed to create_brief_summary
    result,        \* payload returned by run_implementation
    dIn,           \* _deduplicate_articles: argument
    dOut,          \* _deduplicate_articles: return value
    dDone,         \* _deduplicate_articles: has returned
    aIn,           \* aggregate_sentiment: argument of the last call
    aOut,          \* aggregate_sentiment: return value of the last call
    aCalls,        \* aggregate_sentiment: number of calls so far
    eIn,           \* fetch_multiple_contents: the articles as passed in
    max_concurrent, \* ArticleContentFetcher.max_concurrent
    eArts,         \* fetch_multiple_contents: the article objects, by position
    ePc,           \* fetch_multiple_contents: "loop", "gather" or "done"
    eI,            \* fetch_multiple_contents: loop variable i
    eTasks,        \* current batch: position -> "pending" | "running" | "done"
    eOrder,        \* latest batch: positions in the order their fetch ended
    updated_articles, \* fetch_multiple_contents: updated_articles
    eOut,          \* fetch_multiple_contents: return value
    eFailed,       \* positions whose fetch failed or extracted too little
    bot,           \* StockTrackerJob.bot is not None
    tracked_tickers, \* run_implementation: the snapshot of tracked tickers
    tIdx,          \* position in tracked_tickers of the current ticker
    activeJobs,    \* tickers whose StockAnalysisJob.execute() is running
    jobLog,        \* outcome of each analysis job, in loop order
    trackerResults, \* StockTrackerJob.run_implementation: results
    upserts,       \* tickers for which stocks_table.upsert committed
    fanouts,       \* tickers for which _send_notifications was called
    discord_ids,   \* _send_notifications: subscribers of the current ticker
    nRemaining,    \* subscribers the loop has not reached yet
    nInflight,     \* subscribers whose delivery is in flight
    sent_count,    \* _send_notifications: sent_count
    notifications_sent, \* run_implementation: notifications_sent
    deliveryLog,   \* deliveries of the latest fan-out: <<[ticker, row, id, ok]>>
    deliveredOk,   \* number of deliveries of this run that were made
    pProvider,     \* _parse_articles: the client whose parser runs
    pItems,        \* _parse_articles: the items of the payload
    max_articles,  \* search_news: max_articles
    pOut,          \* _parse_articles: return value
    pDone,         \* _parse_articles: has returned
    cIn,           \* analyze_multiple: articles
    model_loaded,  \* SentimentAnalyzer: self.model is not None
    cLoad,         \* what from_pretrained does when load_model runs
    cI,            \* analyze_multiple: index of the next article
    cResults,      \* analyze_multiple: results
    cRaised,       \* analyze_multiple ended by an exception
    cPc,           \* analyze_multiple: "loop" or "done"
    requests,      \* the outbound requests sent so far, in order
    entry,         \* the entry point that runs
    env_keys,      \* credentials present in the environment
    cmd,           \* what the command meets: validator, database, tracked tickers
    xPc,           \* position in the entry point
    attempts,      \* calls the entry point has made
    rows,          \* database rows the entry point has written
    replies,       \* messages sent to the user
    waitEnd,       \* how the confirmation wait ended
    raisedBy,      \* the call whose exception ended run_implementation ("none")
    closeRaised,   \* the session whose close() ended _cleanup_scrapers ("none")
    stocks,        \* the stocks table: its rows
    subscriptions, \* the user_stock_subscriptions table: its rows
    now,           \* the clock of the database server
    commands,      \* number of bot commands run so far
    runs,          \* number of tracker runs started so far
    fPc,           \* position of the tracker run among the commands
    fSnapshot,     \* tracked_tickers of the tracker run
    fIdx,          \* row of fSnapshot the loop is at
    fRecipients,   \* _send_notifications: discord_ids
    fNext,         \* position in fRecipients of the next delivery
    atStart,       \* rows get_all_tracked_tickers selected from
    fanoutLog,     \* fan-outs of the run: <<[row, stored]>>
    analysed,      \* rows of the run whose analysis job was executed
    notified,      \* deliveries of the run: <<[row, ticker, id]>>
    shown,         \* what the last stockinfo command displayed
    poolPc,        \* run_implementation of the pool run: the provider asked next, or "enrich"
    poolArticles,  \* self.articles of the pool run
    poolAsked      \* the providers the pool run asked and how many articles each returned

jobVars == <<kind, status, pc, components, open, acquired, registered, pending,
             invoked, cbFailed, error, outcome, stages, statusLog, articles,
             fetched, enrichCalls, classifyCalls, summarizeCalls, result>>
dedupVars == <<dIn, dOut, dDone>>
aggVars == <<aIn, aOut, aCalls>>
enrichVars == <<eIn, max_concurrent, eArts, ePc, eI, eTasks, eOrder,
                updated_articles, eOut, eFailed>>
trackVars == <<bot, tracked_tickers, tIdx, activeJobs, jobLog, trackerResults,
               upserts, fanouts, discord_ids, nRemaining, nInflight,
               sent_count, notifications_sent, deliveryLog, deliveredOk>>
parseVars == <<pProvider, pItems, max_articles, pOut, pDone>>
classifyVars == <<cIn, model_loaded, cLoad, cI, cResults, cRaised, cPc>>
liveVars == <<requests>>
entryVars == <<entry, env_keys, cmd, xPc, attempts, rows, replies, waitEnd>>
excVars == <<raisedBy, closeRaised>>
fleetVars == <<stocks, subscriptions, now, commands, runs, fPc, fSnapshot, fIdx,
               fRecipients, fNext, atStart, fanoutLog, analysed, notified, shown>>
poolVars == <<poolPc, poolArticles, poolAsked>>
\* what no stage of a StockAnalysisJob changes
quietVars == <<dedupVars, aggVars, enrichVars, trackVars, parseVars, classifyVars,
               liveVars, entryVars,
               fleetVars,
               poolVars>>
\* what the stages of execute() other than run_implementation leave alone
sideVars == <<quietVars, excVars>>
vars == <<jobVars, quietVars, excVars>>

----------------------------------------------------------------------------
(* Bounds of the model *)

\* longest list a provider returns in the model
MaxResult == 5
\* longest argument list of _deduplicate_articles explored
MaxDedupLen == 4
\* longest verdict list handed to aggregate_sentiment
MaxVerdicts == 2
\* number of bot commands run next to the tracker
MaxCommands == 2
\* number of tracker runs
MaxRuns == 1
\* number of consecutive aggregate_sentiment calls explored
MaxAggCalls == 3
\* largest number of tracked tickers in a snapshot
MaxTickers == 3
\* largest number of subscribers of one ticker
MaxSubscribers == 2

----------------------------------------------------------------------------
(* Titles: a title is a sequence of characters *)

Whitespace == {" "}

\* str.lower() on the characters used here
LowerChar(c) == CASE c = "A" -> "a" [] c = "B" -> "b" [] OTHER -> c

Lower(t) == [i \in 1..Len(t) |-> LowerChar(t[i])]

RECURSIVE Strip(_)
Strip(t) ==
    IF t = <<>> THEN t
    ELSE IF Head(t) \in Whitespace THEN Strip(Tail(t))
    ELSE IF t[Len(t)] \in Whitespace THEN Strip(SubSeq(t, 1, Len(t) - 1))
    ELSE t

\* article.title.lower().strip()
NormalizeTitle(t) == Strip(Lower(t))

\* the title of an article built from an item whose "title" is null:
\* article_data.get("title", "") returns None and NewsArticle keeps it
NullTitle == <<"None">>

\* article.title.lower() of a title that is None raises AttributeError
DedupRaises(arts) == \E i \in 1..Len(arts) : arts[i] = NullTitle

\* NewsArticle.get_full_text: " ".join([self.title, ...]) raises TypeError
\* when the title is None
GetFullTextRaises(title) == title = NullTitle

RECURSIVE DedupLoop(_, _, _)
DedupLoop(rest, seen_titles, unique_articles) ==
    IF rest = <<>> THEN unique_articles
    ELSE LET article == Head(rest)
             normalized_title == NormalizeTitle(article)
         IN  IF normalized_title \notin seen_titles
             THEN DedupLoop(Tail(rest), seen_titles \cup {normalized_title},
                            Append(unique_articles, article))
             ELSE DedupLoop(Tail(rest), seen_titles, unique_articles)

\* mutant: keeps the last occurrence of a title instead of the first
RECURSIVE DeduplicateArticles_KeepLast(_)
DeduplicateArticles_KeepLast(arts) ==
    IF arts = <<>> THEN <<>>
    ELSE IF \E j \in 2..Len(arts) : NormalizeTitle(arts[j]) = NormalizeTitle(arts[1])
         THEN DeduplicateArticles_KeepLast(Tail(arts))
         ELSE <<Head(arts)>> \o DeduplicateArticles_KeepLast(Tail(arts))

\* StockAnalysisJob._deduplicate_articles
DeduplicateArticles(arts) == DedupLoop(arts, {}, <<>>)

----------------------------------------------------------------------------
(* Provider results *)

\* the raw titles the providers can return; the second is a re-cased,
\* padded copy of the first
Pool == << <<"a">>, <<"A", " ">>, <<"b">>, <<"c">>, <<"d">>, <<"e">>, <<"f">> >>

\* n consecutive titles of the (cyclic) pool, starting at position off
Window(off, n) == [i \in 1..n |-> Pool[((off + i - 2) % Len(Pool)) + 1]]

\* where the feeds of the remote sources start in the pool: the feed starting
\* at 1 repeats a title, the one starting at 2 holds distinct titles only
FeedStarts == {1, 2, 4}

\* what search_news of a provider can return: the first n articles of a feed,
\* n <= MaxResult (the empty list on every failure mode)
ProviderResults == {Window(off, n) : off \in FeedStarts, n \in 0..MaxResult}

\* what the request of search_news can meet: a network error, a timeout, or
\* a response with a status and a body that is unparseable, of the wrong
\* shape (an error document, not a list), with a null article list, or
\* well-formed with the articles `items`
FailedResponses ==
    {[how |-> h, status |-> 0, body |-> "none", items |-> <<>>] :
        h \in {"network_error", "timeout"}}
    \cup {[how |-> "response", status |-> st, body |-> "ok",
           items |-> Window(2, 1)] : st \in {204, 404, 500}}
    \cup {[how |-> "response", status |-> 200, body |-> b, items |-> <<>>] :
            b \in {"unparseable", "wrong_shape", "null_articles"}}

ProviderResponses ==
    FailedResponses
    \cup {[how |-> "response", status |-> 200, body |-> "ok", items |-> w] :
            w \in ProviderResults}

\* NewsAPI article lists with one item whose title is null: alone, after two
\* well-formed items, and in front of four
MalformedResults ==
    { <<NullTitle>>, Window(4, 2) \o <<NullTitle>>, <<NullTitle>> \o Window(2, 4) }

\* what the request of NewsScraper.search_news can meet; the parsers of the
\* two other clients drop an item without a title
NewsAPIResponses ==
    ProviderResponses
    \cup {[how |-> "response", status |-> 200, body |-> "ok", items |-> w] :
            w \in MalformedResults}

\* the kind of outcome a response stands for
Category(resp) ==
    IF resp.how # "response" THEN "network_error"
    ELSE IF resp.status # 200 THEN "http_error"
    ELSE IF resp.body # "ok" THEN "bad_payload"
    ELSE "ok"

Returned(arts) == [raised |-> FALSE, articles |-> arts]
Raised == [raised |-> TRUE, articles |-> <<>>]

\* mutant: only the status is checked, exceptions of the request escape
NewsScraperSearchNews_NoExcept(resp) ==
    IF resp.how # "response" THEN Raised
    ELSE IF resp.status # 200 THEN Returned(<<>>)
    ELSE IF resp.body # "ok" THEN Raised
    ELSE Returned(resp.items)

\* NewsScraper.search_news: non-200 and status != "ok" return []; every
\* exception of the request, of response.json() and of _parse_articles is
\* caught and returns []
NewsScraperSearchNews(resp) ==
    IF resp.how # "response" THEN Returned(<<>>)
    ELSE IF resp.status # 200 THEN Returned(<<>>)
    ELSE IF resp.body = "unparseable" THEN Returned(<<>>)
    ELSE IF resp.body = "wrong_shape" THEN Returned(<<>>)
    ELSE IF resp.body = "null_articles" THEN Returned(<<>>)
    ELSE Returned(resp.items)

\* YahooFinanceScraper.search_news: non-200 returns []; a page without news
\* items parses to []; every exception is caught and returns []
YahooSearchNews(resp) ==
    IF resp.how # "response" THEN Returned(<<>>)
    ELSE IF resp.status # 200 THEN Returned(<<>>)
    ELSE IF resp.body # "ok" THEN Returned(<<>>)
    ELSE Returned(resp.items)

\* FinnhubScraper.search_news: non-200 and a payload that is not a list
\* return []; every exception is caught and returns []
FinnhubSearchNews(resp) ==
    IF resp.how # "response" THEN Returned(<<>>)
    ELSE IF resp.status # 200 THEN Returned(<<>>)
    ELSE IF resp.body = "unparseable" THEN Returned(<<>>)
    ELSE IF resp.body \in {"wrong_shape", "null_articles"} THEN Returned(<<>>)
    ELSE Returned(resp.items)

\* one call recorded in fetched
Call(p, resp, r) == [p |-> p, res |-> r.articles, how |-> Category(resp)]

----------------------------------------------------------------------------
(* Job lifecycle engine: Job.execute, Job.register_cleanup,                 *)
(* Job.cleanup_resources                                                    *)

JobStatus == {"CREATED", "SETUP", "RUNNING", "CLEANUP", "COMPLETED", "FAILED"}

Kinds == {"analysis", "tracker", "generic"}

Reverse(s) == [i \in 1..Len(s) |-> s[Len(s) + 1 - i]]

\* mutant: an exception in a stage makes execute() return at once
JobNextPc_ReturnEarly(stage, raised) ==
    IF raised THEN "callbacks"
    ELSE CASE stage = "setup_resources" -> "pre"
           [] stage = "pre_run_hook" -> "run"
           [] stage = "run_implementation" -> "post"
           [] stage = "post_run_hook" -> "cleanup"

\* mutant: an exception of the pre-run hook is swallowed and the run goes on
JobNextPc_IgnoreHook(stage, raised) ==
    CASE raised /\ stage # "pre_run_hook" -> "cleanup"
      [] raised /\ stage = "pre_run_hook" -> "run"
      [] ~raised /\ stage = "setup_resources" -> "pre"
      [] ~raised /\ stage = "pre_run_hook" -> "run"
      [] ~raised /\ stage = "run_implementation" -> "post"
      [] ~raised /\ stage = "post_run_hook" -> "cleanup"

\* execute(): where control goes after a stage returned or raised
JobNextPc(stage, raised) ==
    IF raised THEN "cleanup"
    ELSE CASE stage = "setup_resources" -> "pre"
           [] stage = "pre_run_hook" -> "run"
           [] stage = "run_implementation" -> "post"
           [] stage = "post_run_hook" -> "cleanup"

\* execute(): the structured outcome
JobOutcome(err) == IF err = "none" THEN "COMPLETED" ELSE "FAILED"

\* mutant: callbacks are invoked in registration order
JobCleanupOrder_Fifo(cbs) == cbs

\* Job.cleanup_resources: registered callbacks, last registered first
JobCleanupOrder(cbs) == Reverse(cbs)

\* mutant: a failing callback ends the cleanup phase
JobAfterCallback_Abort(rest, raised) == IF raised THEN <<>> ELSE rest

\* Job.cleanup_resources: a callback's failure is logged, the rest still run
JobAfterCallback(rest, raised) == rest

\* StockAnalysisJob.cleanup_resources: await super().cleanup_resources()
AnalysisCleanupResources(cbs) == JobCleanupOrder(cbs)

CleanupResources(k, cbs) ==
    IF k = "analysis" THEN AnalysisCleanupResources(cbs) ELSE JobCleanupOrder(cbs)

----------------------------------------------------------------------------
(* setup_resources of the three jobs *)

AnalysisComponents ==
    <<"news_scraper", "yahoo_scraper", "finnhub_scraper", "content_fetcher">>
AnalysisSessions == <<"newsapi", "yahoo", "finnhub", "fetcher">>
Prefix(s, n) == {s[i] : i \in 1..n}

\* StockAnalysisJob.setup_resources when the first n __aenter__ calls
\* succeed; n < 4 means the next __aenter__ raised
AnalysisSetup(n) ==
    IF n = Len(AnalysisSessions)
    THEN [components |-> Prefix(AnalysisComponents, n)
                         \cup {"sentiment_analyzer", "text_summarizer"},
          open |-> Prefix(AnalysisSessions, n),
          registered |-> <<"_cleanup_scrapers">>,
          raised |-> FALSE]
    ELSE [components |-> Prefix(AnalysisComponents, n + 1),
          open |-> Prefix(AnalysisSessions, n),
          registered |-> <<>>,
          raised |-> TRUE]

TrackerHandles == <<"conn", "cursor">>

\* StockTrackerJob.setup_resources when the first n of psycopg2.connect,
\* conn.cursor succeed; n < 2 means the next one raised
TrackerSetup(n) ==
    IF n = Len(TrackerHandles)
    THEN [components |-> Prefix(TrackerHandles, n)
                         \cup {"stocks_table", "subscriptions_table"},
          open |-> Prefix(TrackerHandles, n),
          registered |-> <<"_close_db_connection">>,
          raised |-> FALSE]
    ELSE [components |-> Prefix(TrackerHandles, n),
          open |-> Prefix(TrackerHandles, n),
          registered |-> <<>>,
          raised |-> TRUE]

GenericCallbacks == <<"c1", "c2">>
GenericResources == <<"r1", "r2">>

\* a pipeline that acquires r1, registers c1, acquires r2, registers c2;
\* it raises after n of these pairs when ok is FALSE
GenericSetup(n, ok) ==
    [components |-> {},
     open |-> Prefix(GenericResources, n),
     registered |-> SubSeq(GenericCallbacks, 1, n),
     raised |-> ~ok]

----------------------------------------------------------------------------
(* Initial states *)

DedupIdle == /\ dIn = <<>>
             /\ dOut = <<>>
             /\ dDone = FALSE

AggIdle == /\ aIn = <<>>
           /\ aOut = [label |-> "none", score |-> [n |-> 0, d |-> 1]]
           /\ aCalls = 0

EnrichIdle == /\ eIn = <<>>
              /\ max_concurrent = 1
              /\ eArts = <<>>
              /\ ePc = "done"
              /\ eI = 0
              /\ eTasks = <<>>
              /\ eOrder = <<>>
              /\ updated_articles = <<>>
              /\ eOut = <<>>
              /\ eFailed = {}

ParseIdle ==
    /\ pProvider = "newsapi"
    /\ pItems = <<>>
    /\ max_articles = 1
    /\ pOut = <<>>
    /\ pDone = FALSE

ClassifyIdle ==
    /\ cIn = <<>>
    /\ model_loaded = FALSE
    /\ cLoad = "ok"
    /\ cI = 1
    /\ cResults = <<>>
    /\ cRaised = FALSE
    /\ cPc = "done"

LiveIdle ==
    /\ requests = <<>>

EntryIdle ==
    /\ entry = "runner"
    /\ env_keys = {}
    /\ cmd = [known |-> FALSE, given |-> FALSE, match |-> FALSE,
              stock_exists |-> FALSE, subscribed |-> FALSE, db_ok |-> FALSE,
              tickers |-> FALSE]
    /\ xPc = "done"
    /\ attempts = {}
    /\ rows = {}
    /\ replies = <<>>
    /\ waitEnd = "none"

NoException ==
    /\ raisedBy = "none"
    /\ closeRaised = "none"

FleetIdle ==
    /\ stocks = {}
    /\ subscriptions = {}
    /\ now = 0
    /\ commands = 0
    /\ runs = 0
    /\ fPc = "idle"
    /\ fSnapshot = <<>>
    /\ fIdx = 0
    /\ fRecipients = <<>>
    /\ fNext = 0
    /\ atStart = {}
    /\ fanoutLog = <<>>
    /\ analysed = <<>>
    /\ notified = <<>>
    /\ shown = "nothing"

PoolIdle ==
    /\ poolPc = "idle"
    /\ poolArticles = <<>>
    /\ poolAsked = <<>>

\* StockTrackerJob before its run_implementation
TrackerIdle ==
    /\ tracked_tickers = <<>>
    /\ tIdx = 0
    /\ activeJobs = {}
    /\ jobLog = <<>>
    /\ trackerResults = <<>>
    /\ upserts = <<>>
    /\ fanouts = <<>>
    /\ discord_ids = <<>>
    /\ nRemaining = <<>>
    /\ nInflight = {}
    /\ sent_count = 0
    /\ notifications_sent = 0
    /\ deliveryLog = <<>>
    /\ deliveredOk = 0

JobCreated ==
    /\ status = "CREATED"
    /\ pc = "created"
    /\ components = {}
    /\ open = {}
    /\ acquired = {}
    /\ registered = <<>>
    /\ pending = <<>>
    /\ invoked = <<>>
    /\ cbFailed = {}
    /\ error = "none"
    /\ outcome = "none"
    /\ stages = <<>>
    /\ statusLog = <<"CREATED">>
    /\ articles = <<>>
    /\ fetched = <<>>
    /\ enrichCalls = <<>>
    /\ classifyCalls = <<>>
    /\ summarizeCalls = <<>>
    /\ result = <<>>

Init ==
    /\ kind \in Kinds
    /\ JobCreated
    /\ PoolIdle
    /\ FleetIdle
    /\ NoException
    /\ EntryIdle
    /\ LiveIdle
    /\ ClassifyIdle
    /\ ParseIdle
    /\ DedupIdle
    /\ AggIdle
    /\ EnrichIdle
    /\ TrackerIdle
    /\ bot \in (IF kind = "tracker" THEN BOOLEAN ELSE {FALSE})

----------------------------------------------------------------------------
(* execute() *)

SetStatus(s) ==
    /\ status' = s
    /\ statusLog' = Append(statusLog, s)

\* execute() is called: the job enters SETUP
ExecuteStart ==
    /\ pc = "created"
    /\ pc' = "setup"
    /\ SetStatus("SETUP")
    /\ UNCHANGED <<sideVars, kind, components, open, acquired, registered, pending,
                   invoked, cbFailed, error, outcome, stages, articles,
                   fetched, enrichCalls, classifyCalls, summarizeCalls, result>>

\* the effect of a setup_resources call that went as eff says
SetupDone(eff) ==
    /\ components' = eff.components
    /\ open' = eff.open
    /\ acquired' = eff.open
    /\ registered' = eff.registered
    /\ stages' = Append(stages, "setup_resources")
    /\ error' = IF eff.raised THEN "setup_resources" ELSE error
    /\ pc' = JobNextPc("setup_resources", eff.raised)
    /\ IF eff.raised
       THEN UNCHANGED <<status, statusLog>>
       ELSE SetStatus("RUNNING")
    /\ UNCHANGED <<sideVars, kind, pending, invoked, cbFailed, outcome, articles,
                   fetched, enrichCalls, classifyCalls, summarizeCalls, result>>

SetupResources ==
    /\ pc = "setup"
    /\ \/ /\ kind = "analysis"
          /\ \E n \in 0..Len(AnalysisSessions) : SetupDone(AnalysisSetup(n))
       \/ /\ kind = "tracker"
          /\ \E n \in 0..Len(TrackerHandles) : SetupDone(TrackerSetup(n))
       \/ /\ kind = "generic"
          /\ \E n \in 0..Len(GenericCallbacks), ok \in BOOLEAN :
                /\ ok => n = Len(GenericCallbacks)
                /\ SetupDone(GenericSetup(n, ok))

\* StockAnalysisJob.pre_run_hook and post_run_hook only log or pass, and
\* StockTrackerJob keeps the hooks of Job; a hook of another pipeline may raise
HookMayRaise(k) == IF k = "generic" THEN BOOLEAN ELSE {FALSE}

PreRunHook ==
    /\ pc = "pre"
    /\ \E raised \in HookMayRaise(kind) :
          /\ error' = IF raised THEN "pre_run_hook" ELSE error
          /\ pc' = JobNextPc("pre_run_hook", raised)
    /\ stages' = Append(stages, "pre_run_hook")
    /\ UNCHANGED <<sideVars, kind, status, statusLog, components, open, acquired,
                   registered, pending, invoked, cbFailed, outcome, articles,
                   fetched, enrichCalls, classifyCalls, summarizeCalls, result>>

PostRunHook ==
    /\ pc = "post"
    /\ \E raised \in HookMayRaise(kind) :
          /\ error' = IF raised THEN "post_run_hook" ELSE error
          /\ pc' = JobNextPc("post_run_hook", raised)
    /\ stages' = Append(stages, "post_run_hook")
    /\ UNCHANGED <<sideVars, kind, status, statusLog, components, open, acquired,
                   registered, pending, invoked, cbFailed, outcome, articles,
                   fetched, enrichCalls, classifyCalls, summarizeCalls, result>>

----------------------------------------------------------------------------
(* SentimentAnalyzer.aggregate_sentiment; probabilities and scores are exact *)
(* fractions [n, d] in lowest terms with d > 0                              *)

RECURSIVE GCD(_, _)
GCD(a, b) == IF b = 0 THEN a ELSE GCD(b, a % b)

Abs(x) == IF x < 0 THEN -x ELSE x

Rat(n, d) ==
    LET g == GCD(Abs(n), d) IN
    IF n = 0 THEN [n |-> 0, d |-> 1] ELSE [n |-> n \div g, d |-> d \div g]

RAdd(x, y) == Rat(x.n * y.d + y.n * x.d, x.d * y.d)
RSub(x, y) == Rat(x.n * y.d - y.n * x.d, x.d * y.d)
RDivInt(x, k) == Rat(x.n, x.d * k)
RMulInt(x, k) == Rat(x.n * k, x.d)
RGeq(x, y) == x.n * y.d >= y.n * x.d
RLeq(x, y) == x.n * y.d <= y.n * x.d

Scores(p, n, u) == [positive |-> p, negative |-> n, neutral |-> u]

\* per-article results of analyze_article: the two verdicts of the worked
\* example, the neutral fallback of analyze_text, a negative one, and two
\* that put a single article on a threshold
VerdictSet ==
    { [label |-> "positive", all_scores |-> Scores(Rat(3, 5), Rat(1, 10), Rat(3, 10))],
      [label |-> "positive", all_scores |-> Scores(Rat(1, 2), Rat(1, 20), Rat(9, 20))],
      [label |-> "neutral", all_scores |-> Scores(Rat(0, 1), Rat(0, 1), Rat(1, 1))],
      [label |-> "negative", all_scores |-> Scores(Rat(1, 10), Rat(3, 5), Rat(3, 10))],
      [label |-> "neutral", all_scores |-> Scores(Rat(3, 20), Rat(0, 1), Rat(17, 20))],
      [label |-> "neutral", all_scores |-> Scores(Rat(0, 1), Rat(3, 20), Rat(17, 20))] }

AggInputs == UNION {[1..n -> VerdictSet] : n \in 0..MaxVerdicts}

\* sum(r["all_scores"][key] for r in results)
RECURSIVE SumScores(_, _)
SumScores(results, key) ==
    IF results = <<>> THEN Rat(0, 1)
    ELSE RAdd(SumScores(SubSeq(results, 1, Len(results) - 1), key),
              results[Len(results)].all_scores[key])

\* mutant: the thresholds are exclusive
LabelOf_Exclusive(sentiment_score) ==
    IF ~RLeq(sentiment_score, Rat(15, 100)) THEN "positive"
    ELSE IF ~RGeq(sentiment_score, Rat(-15, 100)) THEN "negative"
    ELSE "neutral"

LabelOf(sentiment_score) ==
    IF RGeq(sentiment_score, Rat(15, 100)) THEN "positive"
    ELSE IF RLeq(sentiment_score, Rat(-15, 100)) THEN "negative"
    ELSE "neutral"

\* mutant: the score is a running average over the calls made so far
AggregateSentiment_Running(results) ==
    IF results = <<>> THEN [label |-> "neutral", score |-> Rat(0, 1)]
    ELSE LET count == Len(results)
             fresh == RSub(RDivInt(SumScores(results, "positive"), count),
                           RDivInt(SumScores(results, "negative"), count))
             sentiment_score ==
                 RDivInt(RAdd(RMulInt(aOut.score, aCalls), fresh), aCalls + 1)
         IN  [label |-> LabelOf(sentiment_score), score |-> sentiment_score]

\* SentimentAnalyzer.aggregate_sentiment
AggregateSentiment(results) ==
    IF results = <<>> THEN [label |-> "neutral", score |-> Rat(0, 1)]
    ELSE LET total_positive == SumScores(results, "positive")
             total_negative == SumScores(results, "negative")
             count == Len(results)
             avg_positive == RDivInt(total_positive, count)
             avg_negative == RDivInt(total_negative, count)
             sentiment_score == RSub(avg_positive, avg_negative)
         IN  [label |-> LabelOf(sentiment_score), score |-> sentiment_score]

----------------------------------------------------------------------------
(* ArticleContentFetcher.fetch_multiple_contents: the batches and the order *)
(* of what it returns                                                       *)

\* ArticleContentFetcher(max_concurrent=5) in StockAnalysisJob.setup_resources
JobMaxConcurrent == 5

Min(a, b) == IF a < b THEN a ELSE b

\* mutant: the slice is one article wider than max_concurrent
Batch_OneWider(i, n, m) == (i + 1)..Min(i + m + 1, n)

\* the positions (1-based) of articles[i:i + self.max_concurrent]
Batch(i, n, m) == (i + 1)..Min(i + m, n)

\* the positions of a set, in increasing order
RECURSIVE Ascending(_)
Ascending(S) ==
    IF S = {} THEN <<>>
    ELSE LET lo == CHOOSE x \in S : \A y \in S : x <= y
         IN  <<lo>> \o Ascending(S \ {lo})

\* mutant: the results come in the order in which the fetches ended
GatherResults_AsCompleted(tasks, order, arts) ==
    [k \in 1..Len(order) |-> arts[order[k]]]

\* asyncio.gather(*tasks): the results in the order of the tasks
GatherResults(tasks, order, arts) ==
    LET pos == Ascending(DOMAIN tasks) IN [k \in 1..Len(pos) |-> arts[pos[k]]]

\* updated_articles.extend(batch_results)
ExtendUpdated(updated, batch_results) == updated \o batch_results

\* the loop of fetch_multiple_contents over the batches, every task done
RECURSIVE FetchBatches(_, _, _, _)
FetchBatches(arts, i, m, updated) ==
    IF i >= Len(arts) THEN updated
    ELSE FetchBatches(arts, i + m, m,
            ExtendUpdated(updated,
                GatherResults([j \in Batch(i, Len(arts), m) |-> "done"],
                              <<>>, arts)))

\* the list fetch_multiple_contents returns for arts
FetchMultipleContents(arts, m) == FetchBatches(arts, 0, m, <<>>)

----------------------------------------------------------------------------
(* StockAnalysisJob.run_implementation *)

min_articles == 5

\* max_articles=15 in the three search_news calls
JobMaxArticles == 15

\* mutant: every provider is asked, whatever the pool holds
NeedFallback_Always(arts) == TRUE

\* mutant: the comparison with min_articles is inclusive
NeedFallback_Inclusive(arts) == Len(arts) <= min_articles

\* len(self.articles) < min_articles
NeedFallback(arts) == Len(arts) < min_articles

\* mutant: Yahoo is asked again as long as the pool is below the threshold
CascadeNext_Retry(after, arts, comps) ==
    IF NeedFallback(arts) /\ "yahoo_scraper" \in comps
    THEN "yahoo"
    ELSE IF NeedFallback(arts) /\ "finnhub_scraper" \in comps
         THEN "finnhub"
         ELSE "enrich"

\* the two fallback conditions, evaluated in program order after provider
\* `after` returned
CascadeNext(after, arts, comps) ==
    IF after = "newsapi" /\ NeedFallback(arts) /\ "yahoo_scraper" \in comps
    THEN "yahoo"
    ELSE IF NeedFallback(arts) /\ "finnhub_scraper" \in comps
         THEN "finnhub"
         ELSE "enrich"

\* mutant: the articles of the fallback provider are put in front
Merge_Prepend(arts, more) == DeduplicateArticles(more \o arts)

\* self.articles.extend(more); self.articles = self._deduplicate_articles(...)
Merge(arts, more) == DeduplicateArticles(arts \o more)

RunRaises ==
    /\ error' = "run_implementation"
    /\ pc' = JobNextPc("run_implementation", TRUE)

\* the exception of `call` leaves run_implementation
RunRaisesBy(call) ==
    /\ RunRaises
    /\ raisedBy' = call

\* Step 1: the NewsAPI query
FetchNewsAPI ==
    /\ pc = "run"
    /\ kind = "analysis"
    /\ stages' = Append(stages, "run_implementation")
    /\ IF "news_scraper" \notin components
       THEN /\ RunRaisesBy("news_scraper")
            /\ UNCHANGED <<articles, fetched>>
       ELSE \E resp \in NewsAPIResponses :
               LET r == NewsScraperSearchNews(resp) IN
               /\ fetched' = Append(fetched, Call("newsapi", resp, r))
               /\ IF r.raised
                  THEN /\ RunRaisesBy("search_news")
                       /\ articles' = articles
                  ELSE /\ articles' = r.articles
                       /\ pc' = CascadeNext("newsapi", r.articles, components)
                       /\ UNCHANGED <<error, raisedBy>>
    /\ UNCHANGED <<quietVars, closeRaised, kind, status, statusLog, components, open, acquired,
                   registered, pending, invoked, cbFailed, outcome,
                   enrichCalls, classifyCalls, summarizeCalls, result>>

\* Step 2: the Yahoo Finance fallback
FetchYahoo ==
    /\ pc = "yahoo"
    /\ \E resp \in ProviderResponses :
          LET r == YahooSearchNews(resp) IN
          /\ fetched' = Append(fetched, Call("yahoo", resp, r))
          /\ IF r.raised
             THEN /\ RunRaisesBy("search_news")
                  /\ articles' = articles
             ELSE IF DedupRaises(articles \o r.articles)
                  THEN /\ RunRaisesBy("_deduplicate_articles")
                       /\ articles' = articles \o r.articles
                  ELSE /\ articles' = Merge(articles, r.articles)
                       /\ pc' = CascadeNext("yahoo", articles', components)
                       /\ UNCHANGED <<error, raisedBy>>
    /\ UNCHANGED <<quietVars, closeRaised, kind, status, statusLog, components, open, acquired,
                   registered, pending, invoked, cbFailed, outcome,
                   stages, enrichCalls, classifyCalls, summarizeCalls, result>>

\* Step 2b: the Finnhub fallback
FetchFinnhub ==
    /\ pc = "finnhub"
    /\ \E resp \in ProviderResponses :
          LET r == FinnhubSearchNews(resp) IN
          /\ fetched' = Append(fetched, Call("finnhub", resp, r))
          /\ IF r.raised
             THEN /\ RunRaisesBy("search_news")
                  /\ articles' = articles
             ELSE IF DedupRaises(articles \o r.articles)
                  THEN /\ RunRaisesBy("_deduplicate_articles")
                       /\ articles' = articles \o r.articles
                  ELSE /\ articles' = Merge(articles, r.articles)
                       /\ pc' = "enrich"
                       /\ UNCHANGED <<error, raisedBy>>
    /\ UNCHANGED <<quietVars, closeRaised, kind, status, statusLog, components, open, acquired,
                   registered, pending, invoked, cbFailed, outcome,
                   stages, enrichCalls, classifyCalls, summarizeCalls, result>>

\* mutant: the enricher is called whenever there is one
CallsEnricher_Always(arts, comps) == "content_fetcher" \in comps

\* if self.articles and self.content_fetcher
CallsEnricher(arts, comps) == arts # <<>> /\ "content_fetcher" \in comps

\* Step 3: self.articles = await fetch_multiple_contents(self.articles);
\* titles do not record the content that may change
FetchContents ==
    /\ pc = "enrich"
    /\ IF CallsEnricher(articles, components)
       THEN /\ enrichCalls' = Append(enrichCalls, articles)
            /\ articles' = FetchMultipleContents(articles, JobMaxConcurrent)
       ELSE /\ enrichCalls' = enrichCalls
            /\ articles' = articles
    /\ pc' = "sentiment"
    /\ UNCHANGED <<sideVars, kind, status, statusLog, components, open, acquired,
                   registered, pending, invoked, cbFailed, error, outcome,
                   stages, fetched, classifyCalls, summarizeCalls, result>>

\* the verdict every article of a run gets from analyze_multiple in the
\* model: a positive and a negative one, the neutral fallback of
\* analyze_text, the two certain ones, and one on the positive threshold
JobVerdicts ==
    { [label |-> "positive", all_scores |-> Scores(Rat(3, 5), Rat(1, 10), Rat(3, 10))],
      [label |-> "neutral", all_scores |-> Scores(Rat(0, 1), Rat(0, 1), Rat(1, 1))],
      [label |-> "negative", all_scores |-> Scores(Rat(1, 10), Rat(3, 5), Rat(3, 10))],
      [label |-> "positive", all_scores |-> Scores(Rat(1, 1), Rat(0, 1), Rat(0, 1))],
      [label |-> "negative", all_scores |-> Scores(Rat(0, 1), Rat(1, 1), Rat(0, 1))],
      [label |-> "neutral", all_scores |-> Scores(Rat(3, 20), Rat(0, 1), Rat(17, 20))] }

\* aggregate_sentiment(analyze_multiple(self.articles)) for n articles that
\* all get the verdict v
JobSentiment ==
    [n \in 1..Len(Pool) |->
        [v \in JobVerdicts |-> AggregateSentiment([i \in 1..n |-> v])]]

\* summary = "No articles available for summarization."
NoArticlesMessage == "No articles available for summarization."

\* mutant: the classifier is called whenever there is one
CallsClassifier_Always(arts, comps) == "sentiment_analyzer" \in comps

\* if self.articles and self.sentiment_analyzer
CallsClassifier(arts, comps) == arts # <<>> /\ "sentiment_analyzer" \in comps

\* mutant: the summarizer is called whenever there is one
CallsSummarizer_Always(arts, comps) == "text_summarizer" \in comps

\* if self.articles and self.text_summarizer
CallsSummarizer(arts, comps) == arts # <<>> /\ "text_summarizer" \in comps

\* sentiment_score = 0.0; sentiment_label = "neutral"
NoSentiment == [label |-> "neutral", score |-> Rat(0, 1)]

\* what the providers returned to this run, duplicates included
RECURSIVE ProviderTotal(_)
ProviderTotal(calls) ==
    IF calls = <<>> THEN 0 ELSE Len(Head(calls).res) + ProviderTotal(Tail(calls))

\* mutant: articles_found counts what the providers returned
Payload_CountsProviderItems(arts, sentiment, summary) ==
    [articles_found |-> ProviderTotal(fetched),
     sentiment_score |-> sentiment.score,
     sentiment_label |-> sentiment.label,
     summary |-> summary,
     articles |-> arts]

\* the dictionary run_implementation returns
Payload(arts, sentiment, summary) ==
    [articles_found |-> Len(arts),
     sentiment_score |-> sentiment.score,
     sentiment_label |-> sentiment.label,
     summary |-> summary,
     articles |-> arts]

\* Steps 4 and 5 and the return: analyze_multiple, aggregate_sentiment,
\* create_brief_summary.  load_model of either model re-raises what loading
\* raised, and analyze_article does not catch what get_full_text raises:
\* either ends run_implementation
SentimentAndSummary ==
    /\ pc = "sentiment"
    /\ \E v \in JobVerdicts, clsRaises, sumRaises \in BOOLEAN :
          LET classify == CallsClassifier(articles, components)
              summarize == CallsSummarizer(articles, components)
              sentiment == IF classify
                           THEN JobSentiment[Len(articles)][v]
                           ELSE NoSentiment
              summary == IF summarize THEN "brief" ELSE NoArticlesMessage
              noText == \E i \in 1..Len(articles) : GetFullTextRaises(articles[i])
          IN  /\ classifyCalls' = IF classify THEN Append(classifyCalls, articles)
                                  ELSE classifyCalls
              /\ IF classify /\ (clsRaises \/ noText)
                 THEN /\ RunRaisesBy(IF clsRaises THEN "load_model"
                                     ELSE "get_full_text")
                      /\ UNCHANGED <<summarizeCalls, result>>
                 ELSE /\ summarizeCalls' = IF summarize
                                           THEN Append(summarizeCalls, articles)
                                           ELSE summarizeCalls
                      /\ IF summarize /\ sumRaises
                         THEN /\ RunRaisesBy("create_brief_summary")
                              /\ result' = result
                         ELSE /\ result' = <<Payload(articles, sentiment, summary)>>
                              /\ pc' = JobNextPc("run_implementation", FALSE)
                              /\ UNCHANGED <<error, raisedBy>>
    /\ UNCHANGED <<quietVars, closeRaised, kind, status, statusLog, components, open, acquired,
                   registered, pending, invoked, cbFailed, outcome, stages,
                   articles, fetched, enrichCalls>>

----------------------------------------------------------------------------
(* StockTrackerJob.run_implementation and _send_notifications; the run of   *)
(* the two-callback pipeline                                                *)

\* everything but pc, error, stages, result and the tracker's own variables
outsideRun == <<poolVars, fleetVars, liveVars, entryVars, excVars, dedupVars, aggVars, enrichVars, parseVars, classifyVars,
                kind, status, statusLog,
                components, open, acquired, registered, pending, invoked,
                cbFailed, outcome, articles, fetched, enrichCalls,
                classifyCalls, summarizeCalls>>

\* get_all_tracked_tickers: SELECT DISTINCT ticker, company_name ... ORDER BY
\* ticker returns one row for every (ticker, company name) pair stored. A row
\* is written as its ticker, ticker i as i: either every ticker is stored
\* under one company name, or ticker 1 is stored under two and has two rows
Snapshots ==
    {[i \in 1..n |-> i] : n \in 0..MaxTickers}
    \cup {[i \in 1..n |-> IF i = 1 THEN 1 ELSE i - 1] : n \in 2..MaxTickers}

\* get_subscribers_for_ticker: the discord ids subscribed to a ticker
SubscriberLists == {[i \in 1..n |-> i] : n \in 0..MaxSubscribers}

\* how one pass of the delivery loop can end
DeliveryOutcomes == {"sent", "fetch_user_raised", "send_raised"}

Entry(ticker, st) == [ticker |-> ticker, status |-> st]

Successful(entries) ==
    Cardinality({i \in 1..Len(entries) : entries[i].status = "success"})

\* mutant: only the entries of FAILED jobs are counted as failed
Failed_OnlyFailed(entries) ==
    Cardinality({i \in 1..Len(entries) : entries[i].status = "failed"})

\* len([r for r in results if r['status'] != 'success'])
Failed(entries) ==
    Cardinality({i \in 1..Len(entries) : entries[i].status # "success"})

\* the dictionary returned when there are no tracked tickers
EmptySummary ==
    [tickers_processed |-> 0, notifications_sent |-> 0,
     message |-> "No tracked tickers"]

\* the dictionary returned after the loop
Summary(tickers, entries, sent) ==
    [tickers_processed |-> Len(tickers),
     successful |-> Successful(entries),
     failed |-> Failed(entries),
     notifications_sent |-> sent,
     results |-> entries]

\* mutant: the next analysis job is started while the previous ticker's job
\* or deliveries are still running
TickerReady_Eager(pcv) == pcv \in {"t_loop", "t_job", "t_deliver"}

\* the for loop takes the next ticker only when the body has ended: execute()
\* and _send_notifications are awaited, upsert is a blocking call
TickerReady(pcv) == pcv = "t_loop"

\* mutant: a ticker that did not succeed ends run_implementation
AfterFailedTicker_Raise(st) == IF st = "success" THEN "t_loop" ELSE "cleanup"

\* after an entry is appended the loop goes on, whatever the entry says
AfterFailedTicker(st) == "t_loop"

\* mutant: a failed delivery ends the delivery loop
AfterDelivery_Abort(remaining, ok) == IF ok THEN remaining ELSE <<>>

\* except Exception inside the delivery loop: the loop goes on
AfterDelivery(remaining, ok) == remaining

\* notifications_sent += sent
AddSent(total, sent) == total + sent

CurrentTicker == tracked_tickers[tIdx]

\* tracked_tickers = get_all_tracked_tickers(); the empty snapshot returns
TrackerReadSnapshot ==
    /\ pc = "run"
    /\ kind = "tracker"
    /\ stages' = Append(stages, "run_implementation")
    /\ \/ /\ RunRaises
          /\ UNCHANGED <<tracked_tickers, result>>
       \/ \E snapshot \in Snapshots :
             /\ tracked_tickers' = snapshot
             /\ error' = error
             /\ IF snapshot = <<>>
                THEN /\ result' = <<EmptySummary>>
                     /\ pc' = JobNextPc("run_implementation", FALSE)
                ELSE /\ result' = result
                     /\ pc' = "t_loop"
    /\ UNCHANGED <<outsideRun, bot, tIdx, activeJobs, jobLog, trackerResults,
                   upserts, fanouts, discord_ids, nRemaining, nInflight,
                   sent_count, notifications_sent, deliveryLog, deliveredOk>>

\* for stock_info in tracked_tickers: a StockAnalysisJob is built and its
\* execute() is called
TrackerNextTicker ==
    /\ kind = "tracker"
    /\ TickerReady(pc)
    /\ tIdx < Len(tracked_tickers)
    /\ tIdx' = tIdx + 1
    /\ activeJobs' = activeJobs \cup {tracked_tickers[tIdx + 1]}
    /\ pc' = "t_job"
    /\ UNCHANGED <<outsideRun, error, stages, result, bot, tracked_tickers,
                   jobLog, trackerResults, upserts, fanouts, discord_ids,
                   nRemaining, nInflight, sent_count, notifications_sent,
                   deliveryLog, deliveredOk>>

\* execute() of the ticker's job returns its outcome
TrackerJobReturns ==
    /\ pc = "t_job"
    /\ \E out \in {"COMPLETED", "FAILED"} :
          /\ jobLog' = Append(jobLog, out)
          /\ IF out = "COMPLETED"
             THEN /\ trackerResults' = trackerResults
                  /\ pc' = "t_upsert"
             ELSE /\ trackerResults' =
                        Append(trackerResults, Entry(CurrentTicker, "failed"))
                  /\ pc' = AfterFailedTicker("failed")
    /\ activeJobs' = activeJobs \ {CurrentTicker}
    /\ UNCHANGED <<outsideRun, error, stages, result, bot, tracked_tickers,
                   tIdx, upserts, fanouts, discord_ids, nRemaining, nInflight,
                   sent_count, notifications_sent, deliveryLog, deliveredOk>>

\* mutant: the except branch of the loop body records a success
ExceptEntry_Success(ticker) == Entry(ticker, "success")

\* except Exception in the loop body: results.append({"ticker": ticker,
\* "status": "error", ...})
ExceptEntry(ticker) == Entry(ticker, "error")

\* mutant: the subscribers are notified whether the upsert committed or not
AfterUpsert_NotifyAnyway(ok, hasBot) ==
    IF hasBot THEN "t_notify"
    ELSE IF ok THEN "t_entry" ELSE AfterFailedTicker("error")

\* after upsert returned: `if self.bot` and the fan-out, then the entry; what
\* upsert raised goes to the except branch of the loop body
AfterUpsert(ok, hasBot) ==
    IF ok THEN (IF hasBot THEN "t_notify" ELSE "t_entry")
    ELSE AfterFailedTicker("error")

\* self.stocks_table.upsert(stock): commits, or rolls back and re-raises
\* into the except branch of the loop body
TrackerUpsert ==
    /\ pc = "t_upsert"
    /\ \E ok \in BOOLEAN :
          /\ pc' = AfterUpsert(ok, bot)
          /\ IF ok
             THEN /\ upserts' = Append(upserts, CurrentTicker)
                  /\ trackerResults' = trackerResults
             ELSE /\ upserts' = upserts
                  /\ trackerResults' =
                        Append(trackerResults, ExceptEntry(CurrentTicker))
    /\ UNCHANGED <<outsideRun, error, stages, result, bot, tracked_tickers,
                   tIdx, activeJobs, jobLog, fanouts, discord_ids, nRemaining,
                   nInflight, sent_count, notifications_sent, deliveryLog, deliveredOk>>

\* _send_notifications up to its delivery loop: the subscriber query or the
\* construction of the embed may raise (return 0), as does an empty list
SendNotifications ==
    /\ pc = "t_notify"
    /\ fanouts' = Append(fanouts, CurrentTicker)
    /\ \E raised \in BOOLEAN, ids \in SubscriberLists :
          IF raised \/ ids = <<>>
          THEN /\ discord_ids' = <<>>
               /\ nRemaining' = <<>>
               /\ pc' = "t_entry"
          ELSE /\ discord_ids' = ids
               /\ nRemaining' = ids
               /\ pc' = "t_deliver"
    /\ sent_count' = 0
    /\ deliveryLog' = <<>>
    /\ UNCHANGED <<outsideRun, error, stages, result, bot, tracked_tickers,
                   tIdx, activeJobs, jobLog, trackerResults, upserts,
                   nInflight, notifications_sent, deliveredOk>>

\* for discord_id in discord_ids: fetch_user and send are awaited inside the
\* loop body, so a delivery starts only when none is in flight
StartDelivery ==
    /\ pc = "t_deliver"
    /\ nRemaining # <<>>
    /\ nInflight = {}
    /\ nInflight' = {Head(nRemaining)}
    /\ nRemaining' = Tail(nRemaining)
    /\ UNCHANGED <<outsideRun, pc, error, stages, result, bot, tracked_tickers,
                   tIdx, activeJobs, jobLog, trackerResults, upserts, fanouts,
                   discord_ids, sent_count, notifications_sent, deliveryLog, deliveredOk>>

\* the delivery in flight ends: sent, or fetch_user / send raised
FinishDelivery ==
    /\ pc = "t_deliver"
    /\ \E id \in nInflight, how \in DeliveryOutcomes :
          LET ok == how = "sent" IN
          /\ sent_count' = IF ok THEN sent_count + 1 ELSE sent_count
          /\ deliveredOk' = IF ok THEN deliveredOk + 1 ELSE deliveredOk
          /\ deliveryLog' = Append(deliveryLog,
                [ticker |-> CurrentTicker, row |-> tIdx, id |-> id, ok |-> ok])
          /\ nInflight' = nInflight \ {id}
          /\ nRemaining' = AfterDelivery(nRemaining, ok)
    /\ UNCHANGED <<outsideRun, pc, error, stages, result, bot, tracked_tickers,
                   tIdx, activeJobs, jobLog, trackerResults, upserts, fanouts,
                   discord_ids, notifications_sent>>

\* return sent_count
SendNotificationsReturn ==
    /\ pc = "t_deliver"
    /\ nRemaining = <<>>
    /\ nInflight = {}
    /\ pc' = "t_entry"
    /\ UNCHANGED <<outsideRun, error, stages, result, bot, tracked_tickers,
                   tIdx, activeJobs, jobLog, trackerResults, upserts, fanouts,
                   discord_ids, nRemaining, nInflight, sent_count,
                   notifications_sent, deliveryLog, deliveredOk>>

\* notifications_sent += sent (when there is a bot); the success entry
TrackerRecordSuccess ==
    /\ pc = "t_entry"
    /\ notifications_sent' = AddSent(notifications_sent, sent_count)
    /\ sent_count' = 0
    /\ discord_ids' = <<>>
    /\ trackerResults' = Append(trackerResults, Entry(CurrentTicker, "success"))
    /\ pc' = AfterFailedTicker("success")
    /\ UNCHANGED <<outsideRun, error, stages, result, bot, tracked_tickers,
                   tIdx, activeJobs, jobLog, upserts, fanouts, nRemaining,
                   nInflight, deliveryLog, deliveredOk>>

\* the loop is over: the summary is returned
TrackerReturn ==
    /\ pc = "t_loop"
    /\ tIdx = Len(tracked_tickers)
    /\ result' = <<Summary(tracked_tickers, trackerResults, notifications_sent)>>
    /\ pc' = JobNextPc("run_implementation", FALSE)
    /\ UNCHANGED <<outsideRun, error, stages, trackVars>>

GenericRun ==
    /\ pc = "run"
    /\ kind = "generic"
    /\ stages' = Append(stages, "run_implementation")
    /\ \E raised \in BOOLEAN :
          /\ error' = IF raised THEN "run_implementation" ELSE error
          /\ pc' = JobNextPc("run_implementation", raised)
          /\ result' = IF raised THEN result ELSE <<[payload |-> "ok"]>>
    /\ UNCHANGED <<sideVars, kind, status, statusLog, components, open, acquired,
                   registered, pending, invoked, cbFailed, outcome, articles,
                   fetched, enrichCalls, classifyCalls, summarizeCalls>>

----------------------------------------------------------------------------
(* The cleanup phase *)

\* execute() enters CLEANUP on every path and calls cleanup_resources
BeginCleanup ==
    /\ pc = "cleanup"
    /\ pc' = "callbacks"
    /\ SetStatus("CLEANUP")
    /\ stages' = Append(stages, "cleanup_resources")
    /\ pending' = CleanupResources(kind, registered)
    /\ UNCHANGED <<sideVars, kind, components, open, acquired, registered, invoked,
                   cbFailed, error, outcome, articles, fetched, enrichCalls,
                   classifyCalls, summarizeCalls, result>>

\* StockAnalysisJob._cleanup_scrapers when the f-th close() raises (0: none):
\* the closes before it released their session, the later ones never run
CleanupScrapers(comps, held, f) ==
    [open |-> held \ {AnalysisSessions[i] : i \in
                        {j \in 1..Len(AnalysisSessions) :
                           AnalysisComponents[j] \in comps
                           /\ (f = 0 \/ j < f)}},
     raised |-> f # 0]

\* the session whose close() raised in _cleanup_scrapers
ClosingRaised(f) == IF f = 0 THEN "none" ELSE AnalysisSessions[f]

CloseOrder == <<"cursor", "conn">>

\* StockTrackerJob._close_db_connection when the f-th close() raises (0: none)
CloseDbConnection(comps, held, f) ==
    [open |-> held \ {CloseOrder[i] : i \in
                        {j \in 1..Len(CloseOrder) :
                           CloseOrder[j] \in comps /\ (f = 0 \/ j < f)}},
     raised |-> f # 0]

\* callback ci of the two-callback pipeline releases ri unless it raises
GenericRelease(cb, held, raised) ==
    [open |-> IF raised THEN held
              ELSE held \ {GenericResources[i] : i \in
                             {j \in 1..Len(GenericCallbacks) :
                                GenericCallbacks[j] = cb}},
     raised |-> raised]

CallbackDone(cb, eff) ==
    /\ open' = eff.open
    /\ invoked' = Append(invoked, cb)
    /\ cbFailed' = IF eff.raised THEN cbFailed \cup {cb} ELSE cbFailed
    /\ pending' = JobAfterCallback(Tail(pending), eff.raised)
    /\ UNCHANGED <<quietVars, raisedBy, kind, status, statusLog, pc, components, acquired,
                   registered, error, outcome, stages, articles, fetched,
                   enrichCalls, classifyCalls, summarizeCalls, result>>

\* cleanup_resources invokes the next callback; its failure is caught
InvokeCallback ==
    /\ pc = "callbacks"
    /\ pending # <<>>
    /\ LET cb == Head(pending) IN
       \/ /\ cb = "_cleanup_scrapers"
          /\ \E f \in 0..Len(AnalysisSessions) :
                /\ f # 0 => AnalysisComponents[f] \in components
                /\ CallbackDone(cb, CleanupScrapers(components, open, f))
                /\ closeRaised' = ClosingRaised(f)
       \/ /\ cb = "_close_db_connection"
          /\ \E f \in 0..Len(CloseOrder) :
                /\ f # 0 => CloseOrder[f] \in components
                /\ CallbackDone(cb, CloseDbConnection(components, open, f))
                /\ closeRaised' = closeRaised
       \/ /\ cb \in {GenericCallbacks[i] : i \in 1..Len(GenericCallbacks)}
          /\ \E raised \in BOOLEAN :
                CallbackDone(cb, GenericRelease(cb, open, raised))
          /\ closeRaised' = closeRaised

\* execute() returns the structured outcome
Return ==
    /\ pc = "callbacks"
    /\ pending = <<>>
    /\ pc' = "done"
    /\ outcome' = JobOutcome(error)
    /\ SetStatus(JobOutcome(error))
    /\ UNCHANGED <<sideVars, kind, components, open, acquired, registered, pending,
                   invoked, cbFailed, error, stages, articles, fetched,
                   enrichCalls, classifyCalls, summarizeCalls, result>>

----------------------------------------------------------------------------
(* One execution of one job *)

JobNext ==
    \/ ExecuteStart
    \/ SetupResources
    \/ PreRunHook
    \/ FetchNewsAPI
    \/ FetchYahoo
    \/ FetchFinnhub
    \/ FetchContents
    \/ SentimentAndSummary
    \/ TrackerReadSnapshot
    \/ TrackerNextTicker
    \/ TrackerJobReturns
    \/ TrackerUpsert
    \/ SendNotifications
    \/ StartDelivery
    \/ FinishDelivery
    \/ SendNotificationsReturn
    \/ TrackerRecordSuccess
    \/ TrackerReturn
    \/ GenericRun
    \/ PostRunHook
    \/ BeginCleanup
    \/ InvokeCallback
    \/ Return

Next == JobNext

Spec == Init /\ [][Next]_vars

----------------------------------------------------------------------------
(* One analysis run with its outbound requests in flight: a request is sent, *)
(* and the call that awaits it goes on when the remote server answers or    *)
(* when the timeout given to the request expires                            *)

\* timeout=aiohttp.ClientTimeout(total=10), in seconds
FetchTimeout == 10
\* a request that no timer ends
NoTimeout == 0
\* self.session = aiohttp.ClientSession(): no timeout argument, so the
\* requests of the session run under the default of the library,
\* ClientTimeout(total=300), in seconds
SessionTimeout == 300

\* mutant: the provider requests wait for as long as the server likes
CallTimeouts_ProvidersUnbounded ==
    [newsapi |-> NoTimeout, yahoo |-> NoTimeout, finnhub |-> NoTimeout,
     fetcher |-> FetchTimeout]

\* the timeout each outbound request runs under: session.get(...) of the
\* three providers passes none and gets that of the session; the content
\* fetcher passes its own
CallTimeouts ==
    [newsapi |-> SessionTimeout, yahoo |-> SessionTimeout,
     finnhub |-> SessionTimeout, fetcher |-> FetchTimeout]

InitLive ==
    /\ Init
    /\ kind = "analysis"

\* the requests of p that were answered (or that ended by their timeout)
Answered(p) ==
    IF p = "fetcher" THEN Len(enrichCalls)
    ELSE Cardinality({i \in 1..Len(fetched) : fetched[i].p = p})

\* a request of p is awaiting its response
InFlight(p) == Cardinality({i \in 1..Len(requests) : requests[i] = p}) > Answered(p)

\* the call of p at program position at is awaiting its response
Waiting(p, at) == pc = at /\ InFlight(p)

Send(p, at) ==
    /\ pc = at
    /\ ~InFlight(p)
    /\ requests' = Append(requests, p)
    /\ UNCHANGED <<jobVars, poolVars, fleetVars, excVars, entryVars, dedupVars, aggVars, enrichVars, trackVars,
                   parseVars, classifyVars>>

SendNewsAPI ==
    /\ kind = "analysis"
    /\ "news_scraper" \in components
    /\ Send("newsapi", "run")

AnswerNewsAPI ==
    /\ Waiting("newsapi", "run")
    /\ FetchNewsAPI

\* the timer of the request expires: asyncio.TimeoutError inside
\* search_news, caught by its except clause like every failed request
TimeoutNewsAPI ==
    /\ Waiting("newsapi", "run")
    /\ CallTimeouts.newsapi # NoTimeout
    /\ FetchNewsAPI
    /\ fetched'[Len(fetched')].how = "network_error"

SendYahoo ==
    /\ kind = "analysis"
    /\ Send("yahoo", "yahoo")

AnswerYahoo ==
    /\ Waiting("yahoo", "yahoo")
    /\ FetchYahoo

TimeoutYahoo ==
    /\ Waiting("yahoo", "yahoo")
    /\ CallTimeouts.yahoo # NoTimeout
    /\ FetchYahoo
    /\ fetched'[Len(fetched')].how = "network_error"

SendFinnhub ==
    /\ kind = "analysis"
    /\ Send("finnhub", "finnhub")

AnswerFinnhub ==
    /\ Waiting("finnhub", "finnhub")
    /\ FetchFinnhub

TimeoutFinnhub ==
    /\ Waiting("finnhub", "finnhub")
    /\ CallTimeouts.finnhub # NoTimeout
    /\ FetchFinnhub
    /\ fetched'[Len(fetched')].how = "network_error"

\* step 3 without articles or without a content fetcher
SkipContents ==
    /\ pc = "enrich"
    /\ ~CallsEnricher(articles, components)
    /\ FetchContents

SendContents ==
    /\ CallsEnricher(articles, components)
    /\ Send("fetcher", "enrich")

\* the requests of fetch_article_content end when the servers answer and,
\* at the latest, after FetchTimeout seconds; an article whose request timed
\* out is returned unchanged
ContentsReturn ==
    /\ Waiting("fetcher", "enrich")
    /\ CallTimeouts.fetcher # NoTimeout
    /\ FetchContents

\* the steps the program takes by itself
LiveProgramStep ==
    \/ ExecuteStart
    \/ SetupResources
    \/ PreRunHook
    \/ SendNewsAPI
    \/ TimeoutNewsAPI
    \/ SendYahoo
    \/ TimeoutYahoo
    \/ SendFinnhub
    \/ TimeoutFinnhub
    \/ SkipContents
    \/ SendContents
    \/ ContentsReturn
    \/ SentimentAndSummary
    \/ PostRunHook
    \/ BeginCleanup
    \/ InvokeCallback
    \/ Return

\* the steps that need the remote server
ServerAnswers ==
    \/ AnswerNewsAPI
    \/ AnswerYahoo
    \/ AnswerFinnhub

NextLive == LiveProgramStep \/ ServerAnswers

\* the event loop runs the job and its timers whenever they can go on;
\* nothing makes a remote server answer
SpecLive == InitLive /\ [][NextLive]_vars /\ WF_vars(LiveProgramStep)

----------------------------------------------------------------------------
(* _deduplicate_articles as a function of its argument *)

\* raw titles with re-cased, padded, blank and empty variants
DedupTitles == { <<"a">>, <<"A">>, <<" ", "a", " ">>, <<"b">>, <<"B", " ">>,
                 <<" ">>, <<>> }

DedupInputs == UNION {[1..n -> DedupTitles] : n \in 0..MaxDedupLen}

InitDedup ==
    /\ kind = "analysis"
    /\ JobCreated
    /\ PoolIdle
    /\ FleetIdle
    /\ NoException
    /\ EntryIdle
    /\ LiveIdle
    /\ ClassifyIdle
    /\ ParseIdle
    /\ TrackerIdle
    /\ bot = FALSE
    /\ AggIdle
    /\ EnrichIdle
    /\ dIn \in DedupInputs
    /\ dOut = <<>>
    /\ dDone = FALSE

DedupCall ==
    /\ ~dDone
    /\ dOut' = DeduplicateArticles(dIn)
    /\ dDone' = TRUE
    /\ UNCHANGED <<jobVars, poolVars, fleetVars, excVars, entryVars, liveVars, classifyVars, parseVars, aggVars, enrichVars, trackVars, dIn>>

NextDedup == DedupCall

SpecDedup == InitDedup /\ [][NextDedup]_vars

----------------------------------------------------------------------------
(* aggregate_sentiment as a function of its argument *)

InitAgg ==
    /\ kind = "analysis"
    /\ JobCreated
    /\ PoolIdle
    /\ FleetIdle
    /\ NoException
    /\ EntryIdle
    /\ LiveIdle
    /\ ClassifyIdle
    /\ ParseIdle
    /\ TrackerIdle
    /\ bot = FALSE
    /\ DedupIdle
    /\ AggIdle
    /\ EnrichIdle

\* one run's call of aggregate_sentiment; the analyzer keeps nothing of it
AggregateCall ==
    /\ aCalls < MaxAggCalls
    /\ \E results \in AggInputs :
          /\ aIn' = results
          /\ aOut' = AggregateSentiment(results)
    /\ aCalls' = aCalls + 1
    /\ UNCHANGED <<jobVars, poolVars, fleetVars, excVars, entryVars, liveVars, classifyVars, parseVars, dedupVars, enrichVars, trackVars>>

NextAgg == AggregateCall

SpecAgg == InitAgg /\ [][NextAgg]_vars

----------------------------------------------------------------------------
(* ArticleContentFetcher: fetch_article_content, fetch_multiple_contents    *)

\* longest article list handed to fetch_multiple_contents
MaxArticles == 5
\* largest max_concurrent explored
MaxConcurrent == 3

\* len(content) > 100
MinContentLen == 100

\* the values of max_concurrent explored
ConcurrencyLevels == (1..MaxConcurrent) \cup {JobMaxConcurrent}

\* article.url: an http(s) address, another scheme, or empty / None
Urls == {"http", "ftp", "none"}

\* not article.url or not article.url.startswith('http')
SkipUrl(url) == url # "http"

\* an article as the enricher sees it: content is the provider's description
\* until an extraction replaces it
Article(id, url) == [id |-> id, url |-> url, content |-> "description"]

\* n articles, the b-th (if any) with the url u that is not fetched
MkArticles(n, b, u) == [i \in 1..n |-> Article(i, IF i = b THEN u ELSE "http")]

EnrichInputs ==
    {MkArticles(n, b, u) : n \in 0..MaxArticles, b \in 0..MaxArticles,
                           u \in Urls \ {"http"}}

\* what session.get and trafilatura.extract can do for one URL: a network
\* error, a timeout, another exception, or a response with a status whose
\* page yields `length` extracted characters (0: extract returned None)
FetchOutcomes ==
    {[how |-> h, status |-> 0, length |-> 0] :
        h \in {"client_error", "timeout", "exception"}}
    \cup {[how |-> "response", status |-> s, length |-> l] :
            s \in {200, 404, 500},
            l \in {0, MinContentLen, MinContentLen + 1}}

\* the fetch enriched the article
Enriches(o) ==
    o.how = "response" /\ o.status = 200 /\ o.length > MinContentLen

\* mutant: the extracted text is assigned whatever its length
FetchArticleContent_AlwaysAssign(article, o) ==
    IF SkipUrl(article.url) THEN article
    ELSE IF o.how # "response" THEN article
    ELSE IF o.status # 200 THEN article
    ELSE [article EXCEPT !.content = IF o.length = 0 THEN "none"
                                     ELSE "extracted"]

\* ArticleContentFetcher.fetch_article_content with fetch outcome o
FetchArticleContent(article, o) ==
    IF SkipUrl(article.url) THEN article
    ELSE IF o.how # "response" THEN article
    ELSE IF o.status # 200 THEN article
    ELSE IF o.length > MinContentLen
         THEN [article EXCEPT !.content = "extracted"]
         ELSE article

InitEnrich ==
    /\ kind = "analysis"
    /\ JobCreated
    /\ PoolIdle
    /\ FleetIdle
    /\ NoException
    /\ EntryIdle
    /\ LiveIdle
    /\ ClassifyIdle
    /\ ParseIdle
    /\ TrackerIdle
    /\ bot = FALSE
    /\ DedupIdle
    /\ AggIdle
    /\ eIn \in EnrichInputs
    /\ max_concurrent \in ConcurrencyLevels
    /\ eArts = eIn
    /\ ePc = "loop"
    /\ eI = 0
    /\ eTasks = <<>>
    /\ eOrder = <<>>
    /\ updated_articles = <<>>
    /\ eOut = <<>>
    /\ eFailed = {}

\* for i in range(0, len(articles), self.max_concurrent): the tasks of the
\* next batch are created and handed to gather
EnrichBatchStart ==
    /\ ePc = "loop"
    /\ eI < Len(eIn)
    /\ eTasks' = [j \in Batch(eI, Len(eIn), max_concurrent) |-> "pending"]
    /\ eOrder' = <<>>
    /\ ePc' = "gather"
    /\ UNCHANGED <<jobVars, poolVars, fleetVars, excVars, entryVars, liveVars, classifyVars, parseVars, dedupVars, aggVars, trackVars, eIn, max_concurrent, eArts, eI,
                   updated_articles, eOut, eFailed>>

\* a task starts to run: an article without an http url is returned at once,
\* otherwise the request goes out
FetchStart ==
    /\ ePc = "gather"
    /\ \E j \in DOMAIN eTasks :
          /\ eTasks[j] = "pending"
          /\ IF SkipUrl(eArts[j].url)
             THEN /\ eTasks' = [eTasks EXCEPT ![j] = "done"]
                  /\ eOrder' = Append(eOrder, j)
             ELSE /\ eTasks' = [eTasks EXCEPT ![j] = "running"]
                  /\ eOrder' = eOrder
    /\ UNCHANGED <<jobVars, poolVars, fleetVars, excVars, entryVars, liveVars, classifyVars, parseVars, dedupVars, aggVars, trackVars, eIn, max_concurrent, eArts, ePc,
                   eI, updated_articles, eOut, eFailed>>

\* a fetch in flight ends, in any order among those of the batch
FetchFinish ==
    /\ ePc = "gather"
    /\ \E j \in DOMAIN eTasks, o \in FetchOutcomes :
          /\ eTasks[j] = "running"
          /\ eArts' = [eArts EXCEPT ![j] = FetchArticleContent(eArts[j], o)]
          /\ eFailed' = IF Enriches(o) THEN eFailed ELSE eFailed \cup {j}
          /\ eTasks' = [eTasks EXCEPT ![j] = "done"]
          /\ eOrder' = Append(eOrder, j)
    /\ UNCHANGED <<jobVars, poolVars, fleetVars, excVars, entryVars, liveVars, classifyVars, parseVars, dedupVars, aggVars, trackVars, eIn, max_concurrent, ePc, eI,
                   updated_articles, eOut>>

\* gather returns once every task of the batch is done
GatherDone ==
    /\ ePc = "gather"
    /\ \A j \in DOMAIN eTasks : eTasks[j] = "done"
    /\ updated_articles' =
          ExtendUpdated(updated_articles, GatherResults(eTasks, eOrder, eArts))
    /\ eI' = eI + max_concurrent
    /\ eTasks' = <<>>
    /\ ePc' = "loop"
    /\ UNCHANGED <<jobVars, poolVars, fleetVars, excVars, entryVars, liveVars, classifyVars, parseVars, dedupVars, aggVars, trackVars, eIn, max_concurrent, eArts,
                   eOrder, eOut, eFailed>>

\* the loop is over: return updated_articles
EnrichReturn ==
    /\ ePc = "loop"
    /\ eI >= Len(eIn)
    /\ eOut' = updated_articles
    /\ ePc' = "done"
    /\ UNCHANGED <<jobVars, poolVars, fleetVars, excVars, entryVars, liveVars, classifyVars, parseVars, dedupVars, aggVars, trackVars, eIn, max_concurrent, eArts, eI,
                   eTasks, eOrder, updated_articles, eFailed>>

NextEnrich ==
    \/ EnrichBatchStart
    \/ FetchStart
    \/ FetchFinish
    \/ GatherDone
    \/ EnrichReturn

SpecEnrich == InitEnrich /\ [][NextEnrich]_vars

----------------------------------------------------------------------------
(* _parse_articles of the three provider clients. An item of the payload is *)
(* described by what the parsers look at: the length of its title, its URL  *)
(* and the age in hours of its timestamp when the parser runs.              *)

\* longest payload explored
MaxItems == 3
\* largest max_articles explored
MaxRequested == 2

\* search_news(..., hours_back=12, ...) in StockAnalysisJob.run_implementation
hours_back == 12
\* len(title) < 10
MinTitleLen == 10

\* an item without a title (JSON null, no heading element)
NoTitle == -1
\* an item without a timestamp
Undated == -1
\* an item whose timestamp cannot be parsed
Unparseable == -2

Providers == {"newsapi", "yahoo", "finnhub"}

Item(t, u, a) == [title_len |-> t, url |-> u, age |-> a]

PayloadItems ==
    { Item(MinTitleLen, "u", hours_back),
      Item(MinTitleLen, "u", hours_back + 1),
      Item(MinTitleLen, "u", Undated),
      Item(MinTitleLen, "u", Unparseable),
      Item(MinTitleLen - 1, "u", hours_back),
      Item(NoTitle, "u", hours_back),
      Item(MinTitleLen, "", hours_back) }

Payloads == UNION { [1..n -> PayloadItems] : n \in 0..MaxItems }

\* published_at: the parsed timestamp, or now when the item has none
PublishedAge(a) == IF a = Undated THEN 0 ELSE a

\* the body of the loop of NewsScraper._parse_articles: <<article>>, or <<>>
\* when the item raised
NewsScraperParseItem(item) ==
    IF item.age = Unparseable THEN <<>>
    ELSE <<Item(item.title_len, item.url, PublishedAge(item.age))>>

RECURSIVE NewsScraperParseArticles(_)
NewsScraperParseArticles(raw_articles) ==
    IF raw_articles = <<>> THEN <<>>
    ELSE NewsScraperParseItem(Head(raw_articles))
            \o NewsScraperParseArticles(Tail(raw_articles))

\* _parse_time of the Yahoo client: a missing or unreadable time is now
YahooParseTime(a) == IF a \in {Undated, Unparseable} THEN 0 ELSE a

\* YahooFinanceScraper._parse_single_article: <<article>>, or <<>> for None
YahooParseSingleArticle(item) ==
    IF item.title_len = NoTitle THEN <<>>
    ELSE IF item.title_len = 0 \/ item.title_len < MinTitleLen THEN <<>>
    ELSE <<Item(item.title_len, item.url, YahooParseTime(item.age))>>

FirstItems(s, n) == SubSeq(s, 1, IF n < Len(s) THEN n ELSE Len(s))

RECURSIVE YahooLoop(_, _, _, _)
YahooLoop(items, acc, hours, max) ==
    IF items = <<>> THEN acc
    ELSE LET a == YahooParseSingleArticle(Head(items))
         IN  IF a # <<>> /\ a[1].title_len > 0
             THEN LET acc2 == IF a[1].age <= hours THEN acc \o a ELSE acc
                  IN  IF Len(acc2) >= max THEN acc2
                      ELSE YahooLoop(Tail(items), acc2, hours, max)
             ELSE YahooLoop(Tail(items), acc, hours, max)

YahooParseArticles(news_items, hours, max) ==
    YahooLoop(FirstItems(news_items, max * 3), <<>>, hours, max)

\* FinnhubScraper._parse_single_article: <<article>>, or <<>> for None
FinnhubParseSingleArticle(item) ==
    IF item.title_len = NoTitle THEN <<>>
    ELSE IF item.title_len = 0 \/ item.title_len < MinTitleLen THEN <<>>
    ELSE IF item.url = "" THEN <<>>
    ELSE IF item.age = Unparseable THEN <<>>
    ELSE <<Item(item.title_len, item.url, PublishedAge(item.age))>>

RECURSIVE FinnhubLoop(_, _, _, _)
FinnhubLoop(data, acc, hours, max) ==
    IF data = <<>> THEN acc
    ELSE LET a == FinnhubParseSingleArticle(Head(data))
         IN  IF a # <<>> /\ a[1].age <= hours
             THEN IF Len(acc \o a) >= max THEN acc \o a
                  ELSE FinnhubLoop(Tail(data), acc \o a, hours, max)
             ELSE FinnhubLoop(Tail(data), acc, hours, max)

FinnhubParseArticles(data, hours, max) == FinnhubLoop(data, <<>>, hours, max)

\* what search_news of provider p returns for a well-formed payload
ParseArticles(p, items, hours, max) ==
    CASE p = "newsapi" -> NewsScraperParseArticles(items)
      [] p = "yahoo"   -> YahooParseArticles(items, hours, max)
      [] p = "finnhub" -> FinnhubParseArticles(items, hours, max)

InitParse ==
    /\ kind = "analysis"
    /\ JobCreated
    /\ PoolIdle
    /\ FleetIdle
    /\ NoException
    /\ EntryIdle
    /\ LiveIdle
    /\ ClassifyIdle
    /\ TrackerIdle
    /\ bot = FALSE
    /\ DedupIdle
    /\ AggIdle
    /\ EnrichIdle
    /\ pProvider \in Providers
    /\ pItems \in Payloads
    /\ max_articles \in 1..MaxRequested
    /\ pOut = <<>>
    /\ pDone = FALSE

ParseCall ==
    /\ ~pDone
    /\ pOut' = ParseArticles(pProvider, pItems, hours_back, max_articles)
    /\ pDone' = TRUE
    /\ UNCHANGED <<jobVars, poolVars, fleetVars, excVars, entryVars, liveVars, classifyVars, dedupVars, aggVars, enrichVars, trackVars,
                   pProvider, pItems, max_articles>>

NextParse == ParseCall

SpecParse == InitParse /\ [][NextParse]_vars

----------------------------------------------------------------------------
(* SentimentAnalyzer: load_model, analyze_text, analyze_article,            *)
(* analyze_multiple. An article is described by the length of its full text *)
(* and by what the model does with it.                                      *)

\* longest list handed to analyze_multiple in the model
MaxClassified == 3

\* len(text.strip()) < 10
MinTextLen == 10

\* what tokenizing and inference give for a text: the softmax output in
\* percent, or an exception
InferOutcomes ==
    {[raises |-> FALSE, scores |-> s] :
        s \in {Scores(80, 10, 10), Scores(10, 80, 10), Scores(10, 10, 80)}}
      \cup {[raises |-> TRUE, scores |-> Scores(0, 0, 0)]}

ClassifyArticles ==
    {[text_len |-> MinTextLen, infer |-> o] : o \in InferOutcomes}
      \cup {[text_len |-> n, infer |-> [raises |-> TRUE, scores |-> Scores(0, 0, 0)]] :
                n \in {0, MinTextLen - 1}}

ClassifyInputs == UNION { [1..n -> ClassifyArticles] : n \in 0..MaxClassified }

\* the verdict of both early returns of analyze_text
NeutralVerdict ==
    [label |-> "neutral", score |-> 0, all_scores |-> Scores(0, 0, 1)]

Max3(a, b, c) == IF a >= b /\ a >= c THEN a ELSE IF b >= c THEN b ELSE c

\* labels[scores.argmax()]: the first label that has the highest score
ArgmaxLabel(s) ==
    LET m == Max3(s.positive, s.negative, s.neutral)
    IN  IF s.positive = m THEN "positive"
        ELSE IF s.negative = m THEN "negative" ELSE "neutral"

\* the try block of analyze_text
Infer(o) ==
    IF o.raises THEN NeutralVerdict
    ELSE [label |-> ArgmaxLabel(o.scores),
          score |-> Max3(o.scores.positive, o.scores.negative, o.scores.neutral),
          all_scores |-> o.scores]

\* analyze_text: [raised, loaded, verdict]; load_model runs before the try
\* block and re-raises
AnalyzeText(article, loaded, load) ==
    IF article.text_len = 0 \/ article.text_len < MinTextLen
    THEN [raised |-> FALSE, loaded |-> loaded, verdict |-> <<NeutralVerdict>>]
    ELSE IF ~loaded /\ load = "raises"
    THEN [raised |-> TRUE, loaded |-> FALSE, verdict |-> <<>>]
    ELSE [raised |-> FALSE, loaded |-> TRUE,
          verdict |-> <<Infer(article.infer)>>]

InitClassify ==
    /\ kind = "analysis"
    /\ JobCreated
    /\ PoolIdle
    /\ FleetIdle
    /\ NoException
    /\ EntryIdle
    /\ LiveIdle
    /\ ParseIdle
    /\ TrackerIdle
    /\ bot = FALSE
    /\ DedupIdle
    /\ AggIdle
    /\ EnrichIdle
    /\ cIn \in ClassifyInputs
    /\ model_loaded = FALSE
    /\ cLoad \in {"ok", "raises"}
    /\ cI = 1
    /\ cResults = <<>>
    /\ cRaised = FALSE
    /\ cPc = "loop"

\* one iteration of `for article in articles`
AnalyzeArticle ==
    /\ cPc = "loop"
    /\ cI <= Len(cIn)
    /\ LET r == AnalyzeText(cIn[cI], model_loaded, cLoad) IN
          /\ model_loaded' = r.loaded
          /\ cRaised' = r.raised
          /\ cResults' = cResults \o r.verdict
          /\ cPc' = IF r.raised THEN "done" ELSE "loop"
          /\ cI' = IF r.raised THEN cI ELSE cI + 1
    /\ UNCHANGED <<jobVars, poolVars, fleetVars, excVars, entryVars, liveVars, parseVars, dedupVars, aggVars, enrichVars,
                   trackVars, cIn, cLoad>>

\* return results
AnalyzeMultipleReturn ==
    /\ cPc = "loop"
    /\ cI > Len(cIn)
    /\ cPc' = "done"
    /\ UNCHANGED <<jobVars, poolVars, fleetVars, excVars, entryVars, liveVars, parseVars, dedupVars, aggVars, enrichVars,
                   trackVars, cIn, model_loaded, cLoad, cI, cResults, cRaised>>

NextClassify == AnalyzeArticle \/ AnalyzeMultipleReturn

SpecClassify == InitClassify /\ [][NextClassify]_vars

----------------------------------------------------------------------------
(* The entry points and their credentials: test_stock_analysis of main.py,  *)
(* the subscribe and search commands of the bot, and StockTrackerJob        *)

Entries == {"runner", "subscribe", "search", "tracker"}

Credentials == {"NEWSAPI_KEY", "FINNHUB_API_KEY"}

\* the credentials an entry point needs for what it goes on to do
Required(e) ==
    IF e \in {"subscribe", "search"} THEN {"FINNHUB_API_KEY"} ELSE Credentials

NoInputs ==
    [known |-> FALSE, given |-> FALSE, match |-> FALSE,
     stock_exists |-> FALSE, subscribed |-> FALSE, db_ok |-> FALSE,
     tickers |-> FALSE]

\* subscribe: whether the validator knows the ticker, whether a company name
\* was given and matches, whether the stock and the subscription exist, and
\* whether the database can be reached
SubscribeInputs ==
    [known : BOOLEAN, given : BOOLEAN, match : BOOLEAN,
     stock_exists : BOOLEAN, subscribed : BOOLEAN, db_ok : BOOLEAN,
     tickers : {FALSE}]

\* search: whether search_symbol finds anything
SearchInputs == {[NoInputs EXCEPT !.known = k] : k \in BOOLEAN}

\* tracker: whether the database can be reached and whether a ticker is
\* tracked
TrackerInputs ==
    {[NoInputs EXCEPT !.db_ok = d, !.tickers = t] : d, t \in BOOLEAN}

EntryInputs(e) ==
    CASE e = "subscribe" -> SubscribeInputs
      [] e = "search"    -> SearchInputs
      [] e = "tracker"   -> TrackerInputs
      [] e = "runner"    -> {NoInputs}

InitEntry ==
    /\ kind = "analysis"
    /\ JobCreated
    /\ PoolIdle
    /\ FleetIdle
    /\ NoException
    /\ LiveIdle
    /\ ClassifyIdle
    /\ ParseIdle
    /\ TrackerIdle
    /\ bot = FALSE
    /\ DedupIdle
    /\ AggIdle
    /\ EnrichIdle
    /\ entry \in Entries
    /\ env_keys \in SUBSET Credentials
    /\ cmd \in EntryInputs(entry)
    /\ xPc = "start"
    /\ attempts = {}
    /\ rows = {}
    /\ replies = <<>>
    /\ waitEnd = "none"

\* an entry point says msg and returns
ReplyAndReturn(msg) ==
    /\ replies' = Append(replies, msg)
    /\ xPc' = "done"

\* test_stock_analysis: both keys are read and checked before the job is
\* created
RunnerCheckKeys ==
    /\ entry = "runner"
    /\ xPc = "start"
    /\ IF "NEWSAPI_KEY" \notin env_keys THEN ReplyAndReturn("no_newsapi_key")
       ELSE IF "FINNHUB_API_KEY" \notin env_keys
            THEN ReplyAndReturn("no_finnhub_key")
            ELSE xPc' = "r_job" /\ replies' = replies
    /\ UNCHANGED <<jobVars, poolVars, fleetVars, excVars, liveVars, classifyVars, parseVars, dedupVars,
                   aggVars, enrichVars, trackVars, entry, env_keys, cmd,
                   attempts, rows, waitEnd>>

\* result = await job.execute() and the printed report
RunnerExecute ==
    /\ xPc = "r_job"
    /\ attempts' = attempts \cup {"job_execute", "provider_fetch"}
    /\ ReplyAndReturn("report")
    /\ UNCHANGED <<jobVars, poolVars, fleetVars, excVars, liveVars, classifyVars, parseVars, dedupVars,
                   aggVars, enrichVars, trackVars, entry, env_keys, cmd,
                   rows, waitEnd>>

\* subscribe and search: if not finnhub_key: send, return
CommandCheckKey ==
    /\ entry \in {"subscribe", "search"}
    /\ xPc = "start"
    /\ IF "FINNHUB_API_KEY" \notin env_keys THEN ReplyAndReturn("unavailable")
       ELSE /\ xPc' = IF entry = "subscribe" THEN "s_validate" ELSE "q_search"
            /\ replies' = replies
    /\ UNCHANGED <<jobVars, poolVars, fleetVars, excVars, liveVars, classifyVars, parseVars, dedupVars,
                   aggVars, enrichVars, trackVars, entry, env_keys, cmd,
                   attempts, rows, waitEnd>>

\* search: validator.search_symbol(query) and the answer
SearchSymbol ==
    /\ xPc = "q_search"
    /\ attempts' = attempts \cup {"search_symbol"}
    /\ ReplyAndReturn(IF cmd.known THEN "results" ELSE "no_results")
    /\ UNCHANGED <<jobVars, poolVars, fleetVars, excVars, liveVars, classifyVars, parseVars, dedupVars,
                   aggVars, enrichVars, trackVars, entry, env_keys, cmd,
                   rows, waitEnd>>

\* subscribe: validate_ticker, and verify_match when a company name was
\* given; a mismatch shows the confirmation message and waits
SubscribeValidate ==
    /\ xPc = "s_validate"
    /\ attempts' = attempts \cup {"validate_ticker"}
    /\ IF ~cmd.known THEN ReplyAndReturn("not_found")
       ELSE IF cmd.given /\ ~cmd.match
            THEN replies' = Append(replies, "confirm?") /\ xPc' = "s_wait"
            ELSE replies' = replies /\ xPc' = "s_db"
    /\ UNCHANGED <<jobVars, poolVars, fleetVars, excVars, liveVars, classifyVars, parseVars, dedupVars,
                   aggVars, enrichVars, trackVars, entry, env_keys, cmd,
                   rows, waitEnd>>

\* mutant: the command goes on to the database however the wait ended
AfterWait_Proceed(how) == "s_db"

\* where subscribe goes when bot.wait_for returned the reaction `how` or
\* raised asyncio.TimeoutError
AfterWait(how) == IF how = "confirm" THEN "s_db" ELSE "done"

WaitEnds(how, msgs) ==
    /\ xPc = "s_wait"
    /\ waitEnd' = how
    /\ xPc' = AfterWait(how)
    /\ replies' = replies \o msgs
    /\ UNCHANGED <<jobVars, poolVars, fleetVars, excVars, liveVars, classifyVars, parseVars, dedupVars,
                   aggVars, enrichVars, trackVars, entry, env_keys, cmd,
                   attempts, rows>>

\* the author reacts with the confirm emoji
ReactConfirm ==
    /\ entry = "subscribe"
    /\ WaitEnds("confirm", <<>>)

\* the author reacts with the cancel emoji
ReactCancel ==
    /\ entry = "subscribe"
    /\ WaitEnds("cancel", <<"cancelled">>)

\* timeout=30.0 of bot.wait_for expires
ConfirmTimeout ==
    /\ entry = "subscribe"
    /\ WaitEnds("timeout", <<"timeout">>)

\* subscribe: get_db_connection, find_one and upsert of the stock,
\* subscribe() of the user; every exception ends in the error message
SubscribeWrite ==
    /\ xPc = "s_db"
    /\ attempts' = attempts \cup {"db_connect"}
    /\ IF ~cmd.db_ok
       THEN rows' = rows /\ ReplyAndReturn("error")
       ELSE /\ rows' = rows \cup (IF cmd.stock_exists THEN {} ELSE {"stock"})
                            \cup (IF cmd.subscribed THEN {} ELSE {"subscription"})
            /\ ReplyAndReturn(IF cmd.subscribed THEN "already" ELSE "subscribed")
    /\ UNCHANGED <<jobVars, poolVars, fleetVars, excVars, liveVars, classifyVars, parseVars, dedupVars,
                   aggVars, enrichVars, trackVars, entry, env_keys, cmd,
                   waitEnd>>

\* StockTrackerJob.__init__: the keys are stored as given, None included
TrackerConstruct ==
    /\ entry = "tracker"
    /\ xPc = "start"
    /\ xPc' = "t_execute"
    /\ UNCHANGED <<jobVars, poolVars, fleetVars, excVars, liveVars, classifyVars, parseVars, dedupVars,
                   aggVars, enrichVars, trackVars, entry, env_keys, cmd,
                   attempts, rows, replies, waitEnd>>

\* StockTrackerJob.execute: the database is opened, and for a tracked ticker
\* a StockAnalysisJob is built with the stored keys and executed; its
\* result is upserted when it completed
TrackerExecute ==
    /\ xPc = "t_execute"
    /\ xPc' = "done"
    /\ IF ~cmd.db_ok
       THEN attempts' = attempts \cup {"db_connect"} /\ rows' = rows
       ELSE IF ~cmd.tickers
            THEN attempts' = attempts \cup {"db_connect"} /\ rows' = rows
            ELSE /\ attempts' = attempts \cup
                        {"db_connect", "job_execute", "provider_fetch"}
                 /\ \E completed \in BOOLEAN :
                       rows' = IF completed THEN rows \cup {"stock"} ELSE rows
    /\ UNCHANGED <<jobVars, poolVars, fleetVars, excVars, liveVars, classifyVars, parseVars, dedupVars,
                   aggVars, enrichVars, trackVars, entry, env_keys, cmd,
                   replies, waitEnd>>

\* the steps an entry point takes by itself, the expiry of the confirmation
\* timeout among them
EntryProgramStep ==
    \/ RunnerCheckKeys
    \/ RunnerExecute
    \/ CommandCheckKey
    \/ SearchSymbol
    \/ SubscribeValidate
    \/ ConfirmTimeout
    \/ SubscribeWrite
    \/ TrackerConstruct
    \/ TrackerExecute

\* the reactions of the user
UserReacts == ReactConfirm \/ ReactCancel

NextEntry == EntryProgramStep \/ UserReacts

SpecEntry == InitEntry /\ [][NextEntry]_vars

\* the event loop runs a command whenever it can go on; nothing makes the
\* user react
SpecEntryLive == SpecEntry /\ WF_vars(EntryProgramStep)

----------------------------------------------------------------------------
(* The bot commands and the tracker run on the two tables. The commands and *)
(* the tracker are coroutines of one event loop: a step is the code between  *)
(* two awaits, and the psycopg2 calls are blocking calls, not awaits.        *)

FleetTickers == {1, 2}
FleetUsers == {1, 2}
\* the company names the validator has answered for a ticker over time
CompanyNames == {"old name", "new name"}

\* NULL of last_analysis_timestamp and last_sentiment_score
Null == 0

InitFleet ==
    /\ kind = "tracker"
    /\ JobCreated
    /\ PoolIdle
    /\ NoException
    /\ EntryIdle
    /\ LiveIdle
    /\ ClassifyIdle
    /\ ParseIdle
    /\ TrackerIdle
    /\ bot = TRUE
    /\ DedupIdle
    /\ AggIdle
    /\ EnrichIdle
    /\ FleetIdle

notFleet == <<jobVars, excVars, poolVars, dedupVars, aggVars, enrichVars, trackVars,
              parseVars, classifyVars, liveVars, entryVars>>

\* stocks_table.find_one(ticker=t): the row of t, if any
FindStock(tbl, t) == {r \in tbl : r.ticker = t}

\* Stock(ticker, company_name, last_analysis_timestamp=None,
\* last_sentiment_score=None)
NewStock(t, name) ==
    [ticker |-> t, company_name |-> name,
     last_analysis_timestamp |-> Null, last_sentiment_score |-> Null]

\* StocksTable.upsert: INSERT ... ON CONFLICT (ticker) DO UPDATE SET every
\* other column
Upsert(tbl, stock) == (tbl \ FindStock(tbl, stock.ticker)) \cup {stock}

\* mutant: the stock row is written at every subscription
SubscribeWritesStock_Always(tbl, t) == TRUE

\* if not stock_exists
SubscribeWritesStock(tbl, t) == FindStock(tbl, t) = {}

\* UserStockSubscriptionsTable.subscribe: INSERT ... ON CONFLICT
\* (discord_id, ticker) DO NOTHING
InsertSubscription(subs, u, t, name, at) ==
    IF \E s \in subs : s.discord_id = u /\ s.ticker = t
    THEN subs
    ELSE subs \cup {[discord_id |-> u, ticker |-> t, company_name |-> name,
                     subscribed_at |-> at]}

\* UserStockSubscriptionsTable.unsubscribe: DELETE ... WHERE discord_id = u
\* AND ticker = t
DeleteSubscription(subs, u, t) ==
    {s \in subs : ~(s.discord_id = u /\ s.ticker = t)}

\* the subscribe command from the end of its validation on: the stock row
\* is created when there is none, then the subscription is inserted; what
\* upsert raises ends the command
FleetSubscribe ==
    /\ commands < MaxCommands
    /\ commands' = commands + 1
    /\ now' = now + 1
    /\ \E u \in FleetUsers, t \in FleetTickers, name \in CompanyNames,
          upsertOk \in BOOLEAN :
          IF SubscribeWritesStock(stocks, t)
          THEN IF upsertOk
               THEN /\ stocks' = Upsert(stocks, NewStock(t, name))
                    /\ subscriptions' =
                          InsertSubscription(subscriptions, u, t, name, now')
               ELSE UNCHANGED <<stocks, subscriptions>>
          ELSE /\ stocks' = stocks
               /\ subscriptions' =
                     InsertSubscription(subscriptions, u, t, name, now')
    /\ UNCHANGED <<notFleet, runs, fPc, fSnapshot, fIdx, fRecipients, fNext,
                   atStart, fanoutLog, analysed, notified, shown>>

\* the unsubscribe command
FleetUnsubscribe ==
    /\ commands < MaxCommands
    /\ commands' = commands + 1
    /\ \E u \in FleetUsers, t \in FleetTickers :
          subscriptions' = DeleteSubscription(subscriptions, u, t)
    /\ UNCHANGED <<notFleet, stocks, now, runs, fPc, fSnapshot, fIdx,
                   fRecipients, fNext, atStart, fanoutLog, analysed, notified,
                   shown>>

\* the stockinfo command: find_one, then the analysis or "no analysis yet"
FleetStockinfo ==
    /\ commands < MaxCommands
    /\ commands' = commands + 1
    /\ \E t \in FleetTickers :
          shown' = IF \E r \in FindStock(stocks, t) :
                         r.last_analysis_timestamp # Null
                   THEN "analysis"
                   ELSE "no analysis"
    /\ UNCHANGED <<notFleet, stocks, subscriptions, now, runs, fPc, fSnapshot,
                   fIdx, fRecipients, fNext, atStart, fanoutLog, analysed,
                   notified>>

\* SELECT DISTINCT ticker, company_name FROM user_stock_subscriptions
TrackedRows(subs) ==
    {[ticker |-> s.ticker, company_name |-> s.company_name] : s \in subs}

\* ... ORDER BY ticker: every order of the rows that is sorted by ticker
OrderedByTicker(tbl) ==
    {q \in [1..Cardinality(tbl) -> tbl] :
        /\ \A i, j \in DOMAIN q : i < j => q[i] # q[j] /\ q[i].ticker <= q[j].ticker}

\* SELECT discord_id FROM user_stock_subscriptions WHERE ticker = t
Subscribers(subs, t) == {s.discord_id : s \in {x \in subs : x.ticker = t}}

\* the rows of a SELECT without ORDER BY come in any order
AnyOrder(ids) ==
    {q \in [1..Cardinality(ids) -> ids] : \A i, j \in DOMAIN q : i < j => q[i] # q[j]}

\* a tracker run starts: tracked_tickers = get_all_tracked_tickers(); without
\* rows the run returns
FleetReadSnapshot ==
    /\ fPc \in {"idle", "returned"}
    /\ runs < MaxRuns
    /\ runs' = runs + 1
    /\ atStart' = TrackedRows(subscriptions)
    /\ \E q \in OrderedByTicker(TrackedRows(subscriptions)) : fSnapshot' = q
    /\ fPc' = IF subscriptions = {} THEN "returned" ELSE "loop"
    /\ fIdx' = 0
    /\ fanoutLog' = <<>>
    /\ analysed' = <<>>
    /\ notified' = <<>>
    /\ UNCHANGED <<notFleet, stocks, subscriptions, now, commands, fRecipients,
                   fNext, shown>>

\* for stock_info in tracked_tickers: the list read before the loop
LoopRows(snapshot, subs) == snapshot

\* the next row: its StockAnalysisJob is built and execute() is awaited
FleetNextTicker ==
    /\ fPc = "loop"
    /\ fIdx < Len(LoopRows(fSnapshot, subscriptions))
    /\ fIdx' = fIdx + 1
    /\ analysed' = Append(analysed, LoopRows(fSnapshot, subscriptions)[fIdx + 1])
    /\ fPc' = "job"
    /\ UNCHANGED <<notFleet, stocks, subscriptions, now, commands, runs,
                   fSnapshot, fRecipients, fNext, atStart, fanoutLog, notified,
                   shown>>

\* the Stock the tracker writes for a row of its snapshot
AnalysedStock(row, at) ==
    [ticker |-> row.ticker, company_name |-> row.company_name,
     last_analysis_timestamp |-> at, last_sentiment_score |-> at]

\* mutant: the recipients are read again before every delivery
Recipients_Requery(ids, subs, t) ==
    CHOOSE q \in AnyOrder(Subscribers(subs, t)) : TRUE

\* for discord_id in discord_ids: the list read when the fan-out began
Recipients(ids, subs, t) == ids

\* execute() returns. FAILED: the failed entry. COMPLETED: upsert, then, in
\* _send_notifications, get_subscribers_for_ticker; what upsert raises goes
\* to the except branch of the loop body, what the query raises returns 0.
\* No await lies between the return of execute() and the first fetch_user
FleetJobReturns ==
    /\ fPc = "job"
    /\ \E out \in {"COMPLETED", "FAILED"}, upsertOk, queryOk \in BOOLEAN :
          IF out = "COMPLETED" /\ upsertOk
          THEN /\ now' = now + 1
               /\ stocks' = Upsert(stocks, AnalysedStock(fSnapshot[fIdx], now'))
               /\ IF queryOk /\ Subscribers(subscriptions, fSnapshot[fIdx].ticker) # {}
                  THEN /\ \E q \in AnyOrder(Subscribers(subscriptions,
                                              fSnapshot[fIdx].ticker)) :
                             fRecipients' = q
                       /\ fanoutLog' = Append(fanoutLog,
                             [row |-> fIdx,
                              stored |-> Subscribers(subscriptions,
                                                     fSnapshot[fIdx].ticker)])
                       /\ fNext' = 1
                       /\ fPc' = "deliver"
                  ELSE /\ fPc' = "loop"
                       /\ UNCHANGED <<fRecipients, fNext, fanoutLog>>
          ELSE /\ fPc' = "loop"
               /\ UNCHANGED <<now, stocks, fRecipients, fNext, fanoutLog>>
    /\ UNCHANGED <<notFleet, subscriptions, commands, runs, fSnapshot, fIdx,
                   atStart, analysed, notified, shown>>

\* one pass of the delivery loop: fetch_user and send are awaited; a delivery
\* that raises is logged and the loop goes on
FleetDeliver ==
    /\ fPc = "deliver"
    /\ LET ids == Recipients(fRecipients, subscriptions, fSnapshot[fIdx].ticker) IN
          IF fNext <= Len(ids)
          THEN /\ notified' = Append(notified,
                     [row |-> fIdx, ticker |-> fSnapshot[fIdx].ticker,
                      id |-> ids[fNext]])
               /\ fNext' = fNext + 1
               /\ fPc' = IF fNext < Len(ids) THEN "deliver" ELSE "loop"
          ELSE /\ fPc' = "loop"
               /\ UNCHANGED <<notified, fNext>>
    /\ UNCHANGED <<notFleet, stocks, subscriptions, now, commands, runs,
                   fSnapshot, fIdx, fRecipients, atStart, fanoutLog, analysed,
                   shown>>

\* the loop is over: run_implementation returns its summary
FleetReturn ==
    /\ fPc = "loop"
    /\ fIdx >= Len(LoopRows(fSnapshot, subscriptions))
    /\ fPc' = "returned"
    /\ UNCHANGED <<notFleet, stocks, subscriptions, now, commands, runs,
                   fSnapshot, fIdx, fRecipients, fNext, atStart, fanoutLog,
                   analysed, notified, shown>>

NextFleet ==
    \/ FleetSubscribe
    \/ FleetUnsubscribe
    \/ FleetStockinfo
    \/ FleetReadSnapshot
    \/ FleetNextTicker
    \/ FleetJobReturns
    \/ FleetDeliver
    \/ FleetReturn

SpecFleet == InitFleet /\ [][NextFleet]_vars

----------------------------------------------------------------------------
(* The provider cascade of run_implementation with results of the size the *)
(* job asks for                                                             *)

Letters == <<"a", "b", "c", "d", "e", "f", "g">>

\* title i of 49 titles that differ after normalisation
WideTitle(i) == <<Letters[((i - 1) \div 7) + 1], Letters[((i - 1) % 7) + 1]>>

\* where in the titles a provider's result starts
WideStarts == {1, 5, 20}

\* what search_news returns: nothing (also for every failure it catches) up
\* to JobMaxArticles articles; one article more than asked for stands for a
\* provider that does not respect max_articles
WideResults ==
    {[i \in 1..n |-> WideTitle(off + i - 1)] :
        off \in WideStarts, n \in 0..(JobMaxArticles + 1)}

\* setup_resources created all four components
AllComponents == {AnalysisComponents[i] : i \in 1..Len(AnalysisComponents)}

InitPool ==
    /\ kind = "analysis"
    /\ JobCreated
    /\ NoException
    /\ FleetIdle
    /\ EntryIdle
    /\ LiveIdle
    /\ ClassifyIdle
    /\ ParseIdle
    /\ TrackerIdle
    /\ bot = FALSE
    /\ DedupIdle
    /\ AggIdle
    /\ EnrichIdle
    /\ poolPc = "newsapi"
    /\ poolArticles = <<>>
    /\ poolAsked = <<>>

notPool == <<jobVars, excVars, fleetVars, dedupVars, aggVars, enrichVars,
             trackVars, parseVars, classifyVars, liveVars, entryVars>>

Asked(provider, res) == [provider |-> provider, n |-> Len(res)]

\* Step 1: self.articles = await self.news_scraper.search_news(...)
PoolNewsAPI ==
    /\ poolPc = "newsapi"
    /\ \E res \in WideResults :
          /\ poolArticles' = res
          /\ poolAsked' = Append(poolAsked, Asked("newsapi", res))
          /\ poolPc' = CascadeNext("newsapi", res, AllComponents)
    /\ UNCHANGED notPool

\* Step 2: the Yahoo fallback, extend and _deduplicate_articles
PoolYahoo ==
    /\ poolPc = "yahoo"
    /\ \E res \in WideResults :
          /\ poolArticles' = Merge(poolArticles, res)
          /\ poolAsked' = Append(poolAsked, Asked("yahoo", res))
          /\ poolPc' = CascadeNext("yahoo", poolArticles', AllComponents)
    /\ UNCHANGED notPool

\* Step 2b: the Finnhub fallback, extend and _deduplicate_articles
PoolFinnhub ==
    /\ poolPc = "finnhub"
    /\ \E res \in WideResults :
          /\ poolArticles' = Merge(poolArticles, res)
          /\ poolAsked' = Append(poolAsked, Asked("finnhub", res))
          /\ poolPc' = "enrich"
    /\ UNCHANGED notPool

NextPool ==
    \/ PoolNewsAPI
    \/ PoolYahoo
    \/ PoolFinnhub

SpecPool == InitPool /\ [][NextPool]_vars

----------------------------------------------------------------------------
(* Claims about the job lifecycle *)

Elems(s) == {s[i] : i \in 1..Len(s)}

Occurrences(s, x) == Cardinality({i \in 1..Len(s) : s[i] = x})

IsBodyStage(s) == s # "cleanup_resources"

StageOrder ==
    <<"setup_resources", "pre_run_hook", "run_implementation", "post_run_hook">>

Rank(s) ==
    CASE s = "CREATED" -> 0
      [] s = "SETUP" -> 1
      [] s = "RUNNING" -> 2
      [] s = "CLEANUP" -> 3
      [] s \in {"COMPLETED", "FAILED"} -> 4

CleanupFinished ==
    /\ "cleanup_resources" \in Elems(stages)
    /\ "CLEANUP" \in Elems(statusLog)
    /\ pending = <<>>
    /\ Elems(registered) \subseteq Elems(invoked)

\* C1: execute() always returns a structured outcome, COMPLETED with the
\* result or FAILED with the error, whichever stages raise; it never ends in
\* another way, and FAILED is returned only after the cleanup phase finished
C1_ExecuteReturnsOutcome ==
    /\ outcome \in {"none", "COMPLETED", "FAILED"}
    /\ pc # "done" => outcome = "none" /\ ENABLED Next
    /\ pc = "done" => outcome \in {"COMPLETED", "FAILED"} /\ status = outcome
    /\ outcome = "COMPLETED" => error = "none" /\ Len(result) = 1
    /\ outcome = "FAILED" => error \in Elems(StageOrder) /\ CleanupFinished

C1_Witness ==
    /\ kind = "tracker"
    /\ pc = "done"
    /\ outcome = "FAILED"
    /\ error = "run_implementation"
    /\ cbFailed # {}

\* C2: the stages run in the order setup_resources, pre_run_hook,
\* run_implementation, post_run_hook; the status only moves forward along
\* CREATED, SETUP, RUNNING, CLEANUP, COMPLETED | FAILED; the stage that raised
\* is the last one before cleanup_resources, which runs exactly once before
\* execute() returns
C2_StagesInOrder ==
    LET body == SelectSeq(stages, IsBodyStage) IN
    /\ Len(body) <= Len(StageOrder)
    /\ \A i \in 1..Len(body) : body[i] = StageOrder[i]
    /\ \A i \in 1..Len(stages) :
          stages[i] = "cleanup_resources" => i = Len(stages)
    /\ error # "none" => body # <<>> /\ body[Len(body)] = error
    /\ pc = "done" =>
          /\ Occurrences(stages, "cleanup_resources") = 1
          /\ error = "none" => body = StageOrder
    /\ \A i \in 1..Len(statusLog) - 1 :
          Rank(statusLog[i]) < Rank(statusLog[i + 1])
    /\ statusLog[Len(statusLog)] = status
    /\ status \in JobStatus

C2_Witness ==
    /\ pc = "done"
    /\ error = "pre_run_hook"
    /\ stages = <<"setup_resources", "pre_run_hook", "cleanup_resources">>
    /\ statusLog = <<"CREATED", "SETUP", "RUNNING", "CLEANUP", "FAILED">>

\* C3: the registered cleanup callbacks are invoked in reverse registration
\* order on every exit path, all of them before execute() returns
C3_CallbacksReverseOrder ==
    /\ Len(invoked) <= Len(registered)
    /\ \A i \in 1..Len(invoked) : invoked[i] = Reverse(registered)[i]
    /\ pc = "done" => invoked = Reverse(registered)

C3_Witness ==
    /\ pc = "done"
    /\ outcome = "FAILED"
    /\ error = "run_implementation"
    /\ registered = <<"c1", "c2">>
    /\ invoked = <<"c2", "c1">>

\* C4: when execute() of a StockAnalysisJob or StockTrackerJob has returned,
\* no resource acquired in setup_resources is still held
C4_NoResourceHeldAfterExecute ==
    pc = "done" /\ kind \in {"analysis", "tracker"} => acquired \cap open = {}

\* C5: every registered callback is invoked exactly once, whichever other
\* callbacks raise
C5_EveryCallbackInvokedOnce ==
    /\ \A cb \in Elems(registered) : Occurrences(invoked, cb) <= 1
    /\ pc = "done" =>
          \A cb \in Elems(registered) : Occurrences(invoked, cb) = 1
    /\ cbFailed \subseteq Elems(invoked)

C5_Witness ==
    /\ pc = "done"
    /\ registered = <<"c1", "c2">>
    /\ cbFailed = {"c2"}
    /\ Occurrences(invoked, "c1") = 1

----------------------------------------------------------------------------
(* Claims about the cascade *)

UniqueCount(arts) == Cardinality({NormalizeTitle(arts[i]) : i \in 1..Len(arts)})

NoRepeatedTitle(arts) ==
    \A i, j \in 1..Len(arts) :
       NormalizeTitle(arts[i]) = NormalizeTitle(arts[j]) => i = j

Called(p) == \E i \in 1..Len(fetched) : fetched[i].p = p

\* the raw result of provider p, empty when p was not called
ResultOf(p) ==
    IF Called(p)
    THEN fetched[CHOOSE i \in 1..Len(fetched) : fetched[i].p = p].res
    ELSE <<>>

\* the analysis run has left the cascade
CascadeOver ==
    /\ kind = "analysis"
    /\ Called("newsapi")
    /\ pc \notin {"run", "yahoo", "finnhub"}

\* C6: once the threshold of 5 is met no later provider is invoked: 5 unique
\* articles from NewsAPI rule out Yahoo and Finnhub, and a merged unique pool
\* of 5 after NewsAPI and Yahoo rules out Finnhub
C6_NoProviderAfterThreshold ==
    /\ UniqueCount(ResultOf("newsapi")) >= min_articles =>
          ~Called("yahoo") /\ ~Called("finnhub")
    /\ UniqueCount(ResultOf("newsapi") \o ResultOf("yahoo")) >= min_articles =>
          ~Called("finnhub")

C6_Witness ==
    /\ pc = "done"
    /\ outcome = "COMPLETED"
    /\ Len(ResultOf("newsapi")) = 2
    /\ Len(ResultOf("yahoo")) = 4
    /\ UniqueCount(ResultOf("newsapi") \o ResultOf("yahoo")) = 6
    /\ ~Called("finnhub")
    /\ Len(enrichCalls) = 1

\* C7: when NewsAPI returned fewer than 5 distinct normalized titles, Yahoo is
\* queried before enrichment starts; when the merged unique count after
\* NewsAPI and Yahoo is still below 5, Finnhub is queried before enrichment
C7_FallbackQueriedBelowThreshold ==
    CascadeOver =>
       /\ UniqueCount(ResultOf("newsapi")) < min_articles => Called("yahoo")
       /\ UniqueCount(ResultOf("newsapi") \o ResultOf("yahoo")) < min_articles
             => Called("finnhub")

\* C8: no pool handed to the content enricher or to the sentiment classifier
\* holds two articles with equal normalized titles
C8_PoolHasNoRepeatedTitle ==
    /\ \A i \in 1..Len(enrichCalls) : NoRepeatedTitle(enrichCalls[i])
    /\ \A i \in 1..Len(classifyCalls) : NoRepeatedTitle(classifyCalls[i])

\* C25: when no article survives the cascade, run_implementation calls
\* neither the enricher nor the classifier nor the summarizer, and the job
\* completes with articles_found = 0, score 0.0, label neutral and the fixed
\* no-articles message
C25_NoArticlesNoCalls ==
    kind = "analysis" /\ result # <<>> /\ articles = <<>> =>
        /\ enrichCalls = <<>>
        /\ classifyCalls = <<>>
        /\ summarizeCalls = <<>>
        /\ result[1].articles_found = 0
        /\ result[1].sentiment_score = Rat(0, 1)
        /\ result[1].sentiment_label = "neutral"
        /\ result[1].summary = NoArticlesMessage
        /\ pc = "done" => outcome = "COMPLETED"

\* the three providers were asked, none had an article, and the job
\* completed with the no-articles payload
C25_Witness ==
    /\ kind = "analysis"
    /\ pc = "done"
    /\ outcome = "COMPLETED"
    /\ Len(fetched) = 3
    /\ articles = <<>>
    /\ {"content_fetcher", "sentiment_analyzer", "text_summarizer"} \subseteq components
    /\ result = <<Payload(<<>>, NoSentiment, NoArticlesMessage)>>

\* C26: every analysis run eventually reaches COMPLETED or FAILED, even when
\* a remote server never answers
C26_RunEventuallyEnds == <>(pc = "done" /\ outcome \in {"COMPLETED", "FAILED"})

\* a run that completed although none of its three provider requests got a
\* response
C26_Witness ==
    /\ kind = "analysis"
    /\ pc = "done"
    /\ outcome = "COMPLETED"
    /\ Len(requests) = 3
    /\ Len(fetched) = 3
    /\ \A i \in 1..3 : fetched[i].how = "network_error" /\ fetched[i].res = <<>>

\* the providers of a sequence of requests or calls, "fetcher" left out
ProviderOrder(s) ==
    LET RECURSIVE Keep(_)
        Keep(t) == IF t = <<>> THEN <<>>
                   ELSE IF Head(t) = "fetcher" THEN Keep(Tail(t))
                   ELSE <<Head(t)>> \o Keep(Tail(t))
    IN  Keep(s)

\* the orders in which a run can have asked its providers
FixedOrders ==
    { <<>>, <<"newsapi">>, <<"newsapi", "yahoo">>, <<"newsapi", "finnhub">>,
      <<"newsapi", "yahoo", "finnhub">> }

\* C29: the providers are asked in the order NewsAPI, Yahoo, Finnhub:
\* NewsAPI exactly once in a run that got past the cascade, Yahoo and
\* Finnhub at most once, none before the one before it has returned, and no
\* two requests are in flight at the same time
C29_ProvidersInFixedOrder ==
    /\ ProviderOrder(requests) \in FixedOrders
    /\ [i \in 1..Len(fetched) |-> fetched[i].p] \in FixedOrders
    /\ Cardinality({p \in DOMAIN CallTimeouts : InFlight(p)}) <= 1
    /\ \A i \in 1..Len(requests) : \A j \in 1..(i - 1) :
          Answered(requests[j]) >= 1
    /\ pc \in {"enrich", "sentiment"} \/ result # <<>> =>
          Cardinality({i \in 1..Len(fetched) : fetched[i].p = "newsapi"}) = 1

\* the three providers were asked one after the other, the request to
\* Finnhub is in flight and the two before it have returned
C29_Witness ==
    /\ requests = <<"newsapi", "yahoo", "finnhub">>
    /\ InFlight("finnhub")
    /\ [i \in 1..Len(fetched) |-> fetched[i].p] = <<"newsapi", "yahoo">>
    /\ pc = "finnhub"

\* s can be obtained from t by leaving elements out
RECURSIVE IsSubsequence(_, _)
IsSubsequence(s, t) ==
    IF s = <<>> THEN TRUE
    ELSE IF t = <<>> THEN FALSE
    ELSE IF Head(s) = Head(t) THEN IsSubsequence(Tail(s), Tail(t))
    ELSE IsSubsequence(s, Tail(t))

\* what the providers asked so far returned, one result after the other
RECURSIVE Concatenation(_)
Concatenation(calls) ==
    IF calls = <<>> THEN <<>>
    ELSE Head(calls).res \o Concatenation(Tail(calls))

\* C30: the articles of a result are a subsequence of (NewsAPI result) ++
\* (Yahoo result) ++ (Finnhub result): neither the merge with its dedup nor
\* the enrichment reorders
C30_ArticlesKeepProviderOrder ==
    kind = "analysis" =>
        /\ IsSubsequence(articles, Concatenation(fetched))
        /\ result # <<>> =>
              IsSubsequence(result[1].articles, Concatenation(fetched))

\* a completed run whose three providers contributed articles, which went
\* through the enricher
C30_Witness ==
    /\ kind = "analysis"
    /\ pc = "done"
    /\ outcome = "COMPLETED"
    /\ Len(fetched) = 3
    /\ \A i \in 1..3 : \E j \in 1..Len(fetched[i].res) :
          /\ \E k \in 1..Len(result[1].articles) : result[1].articles[k] = fetched[i].res[j]
          /\ \A h \in 1..(i - 1) : \A g \in 1..Len(fetched[h].res) :
                NormalizeTitle(fetched[h].res[g]) # NormalizeTitle(fetched[i].res[j])
    /\ enrichCalls # <<>>
    /\ Len(result[1].articles) >= 3

\* the calls of run_implementation that fail on one item
ItemCalls == {"_deduplicate_articles", "get_full_text"}

\* C31: one malformed item of a provider payload never propagates: with an
\* article whose title is null among those NewsAPI returned, no exception
\* raised on that item ends run_implementation, and a run that nothing else
\* made fail ends COMPLETED
C31_MalformedItemNeverPropagates ==
    kind = "analysis" /\ (\E i \in 1..Len(fetched) : DedupRaises(fetched[i].res)) =>
        /\ raisedBy \notin ItemCalls
        /\ pc = "done" /\ raisedBy \in ItemCalls \cup {"none"}
              /\ error \in {"none", "run_implementation"} => outcome = "COMPLETED"

\* C39: after _cleanup_scrapers ran, the only session of the job that can
\* still be open is the one whose close() raised: every other close was
\* attempted, whether or not an earlier one raised.
C39_EveryCloseAttempted ==
    kind = "analysis" /\ "_cleanup_scrapers" \in Elems(invoked) =>
       \A i \in 1..Len(AnalysisSessions) :
          AnalysisSessions[i] \in open => AnalysisSessions[i] = closeRaised

----------------------------------------------------------------------------
(* Claims about _deduplicate_articles *)

\* positions of arts whose normalized title does not occur at an earlier one
FirstOccurrences(arts) ==
    {i \in 1..Len(arts) :
       \A j \in 1..(i - 1) : NormalizeTitle(arts[j]) # NormalizeTitle(arts[i])}

\* the k-th smallest element of the set of positions I
KthOf(I, k) == CHOOSE i \in I : Cardinality({j \in I : j <= i}) = k

\* C9: _deduplicate_articles returns exactly the articles whose normalized
\* title has not appeared earlier in the list, in their original order: one
\* copy per normalized title, the first occurrence
C9_DedupKeepsFirstOccurrences ==
    dDone =>
       LET I == FirstOccurrences(dIn) IN
       /\ Len(dOut) = Cardinality(I)
       /\ \A k \in 1..Len(dOut) : dOut[k] = dIn[KthOf(I, k)]
       /\ \A i \in 1..Len(dIn) :
             Cardinality({k \in 1..Len(dOut) :
                NormalizeTitle(dOut[k]) = NormalizeTitle(dIn[i])}) = 1

\* a re-cased, padded copy of an earlier title was dropped and an article
\* after it was kept
C9_Witness ==
    /\ dDone
    /\ dIn = << <<"A">>, <<"b">>, <<" ", "a", " ">>, <<"B", " ">> >>
    /\ dOut = << <<"A">>, <<"b">> >>

----------------------------------------------------------------------------
(* Claims about aggregate_sentiment *)

\* the sum over the verdicts of P(positive) - P(negative)
RECURSIVE SumOfDifferences(_)
SumOfDifferences(vs) ==
    IF vs = <<>> THEN Rat(0, 1)
    ELSE RAdd(RSub(Head(vs).all_scores.positive, Head(vs).all_scores.negative),
              SumOfDifferences(Tail(vs)))

ExampleVerdicts ==
    << [label |-> "positive", all_scores |-> Scores(Rat(3, 5), Rat(1, 10), Rat(3, 10))],
       [label |-> "positive", all_scores |-> Scores(Rat(1, 2), Rat(1, 20), Rat(9, 20))] >>

\* C10: the score is mean(P(positive)) - mean(P(negative)) over the verdicts
\* of this call, whatever earlier calls were given; (neutral, 0) for no
\* verdicts; the worked example gives 0.475 = 19/40 and the label positive
C10_ScoreIsDifferenceOfMeans ==
    aCalls > 0 =>
       /\ aIn = <<>> => aOut = [label |-> "neutral", score |-> [n |-> 0, d |-> 1]]
       /\ aIn # <<>> => RMulInt(aOut.score, Len(aIn)) = SumOfDifferences(aIn)
       /\ aIn = ExampleVerdicts =>
             aOut = [label |-> "positive", score |-> [n |-> 19, d |-> 40]]

\* the worked example as the second call, after a different earlier one
C10_Witness ==
    /\ aCalls = 2
    /\ aIn = ExampleVerdicts
    /\ aOut.score = [n |-> 19, d |-> 40]
    /\ aOut.label = "positive"

\* 20 * score compared with 3 and -3, on the numerator and denominator
AtLeastThreshold(score) == 20 * score.n >= 3 * score.d
AtMostNegThreshold(score) == 20 * score.n <= (-3) * score.d

\* C11: the aggregate label is positive exactly when score >= 0.15, negative
\* exactly when score <= -0.15 and neutral otherwise; both boundaries are
\* inclusive and a score of 0 is neutral
C11_LabelFollowsThresholds ==
    aCalls > 0 =>
       /\ aOut.label \in {"positive", "negative", "neutral"}
       /\ aOut.label = "positive" <=> AtLeastThreshold(aOut.score)
       /\ aOut.label = "negative" <=> AtMostNegThreshold(aOut.score)
       /\ aOut.score = [n |-> 3, d |-> 20] => aOut.label = "positive"
       /\ aOut.score = [n |-> -3, d |-> 20] => aOut.label = "negative"
       /\ aOut.score = [n |-> 0, d |-> 1] => aOut.label = "neutral"

\* two verdicts whose means differ by exactly 0.15
C11_Witness ==
    /\ aCalls > 0
    /\ Len(aIn) = 2
    /\ aOut.score = [n |-> 3, d |-> 20]
    /\ aOut.label = "positive"

----------------------------------------------------------------------------
(* Claims about the content fetcher *)

Running == {j \in DOMAIN eTasks : eTasks[j] = "running"}

\* positions whose fetch has been started, and those whose fetch has ended
Started == {j \in DOMAIN eTasks : eTasks[j] # "pending"}
Finished == (1..Len(updated_articles)) \cup {j \in DOMAIN eTasks : eTasks[j] = "done"}

\* first position of the slice of width max_concurrent that holds position j
SliceStart(j) == ((j - 1) \div max_concurrent) * max_concurrent + 1

\* C12: a per-article failure (network error, non-200 response, timeout,
\* extracted text not longer than the minimum) leaves that article as it was
\* passed in, drops nothing and stops neither the batch nor the later batches:
\* the output has one article per input article, the failed ones equal to
\* their input and every other article with an http url enriched
C12_FailureLeavesArticleUnchanged ==
    /\ \A j \in eFailed : eArts[j] = eIn[j]
    /\ ePc = "done" =>
          /\ Len(eOut) = Len(eIn)
          /\ \A j \in 1..Len(eIn) :
                /\ j \in eFailed => eOut[j] = eIn[j]
                /\ j \notin eFailed /\ ~SkipUrl(eIn[j].url) =>
                      eOut[j] = [eIn[j] EXCEPT !.content = "extracted"]
                /\ SkipUrl(eIn[j].url) => eOut[j] = eIn[j]

\* 5 articles in one batch, the second fails, the other 4 are enriched
C12_Witness ==
    /\ ePc = "done"
    /\ Len(eIn) = 5
    /\ max_concurrent = 5
    /\ \A j \in 1..5 : ~SkipUrl(eIn[j].url)
    /\ eFailed = {2}
    /\ eOut[2] = eIn[2]
    /\ Cardinality({j \in 1..5 : eOut[j].content = "extracted"}) = 4

\* C13: the returned list is as long as the input and position i holds the
\* article that was at input position i, whatever max_concurrent is and in
\* whatever order the fetches of a batch end
C13_SameLengthSameOrder ==
    /\ \A i \in 1..Len(updated_articles) :
          /\ i <= Len(eIn)
          /\ updated_articles[i].id = eIn[i].id
          /\ updated_articles[i].url = eIn[i].url
    /\ ePc = "done" =>
          /\ Len(eOut) = Len(eIn)
          /\ \A i \in 1..Len(eIn) :
                eOut[i].id = eIn[i].id /\ eOut[i].url = eIn[i].url

\* the fetches of the second batch ended in the opposite order of its tasks
C13_Witness ==
    /\ ePc = "done"
    /\ Len(eIn) = 5
    /\ max_concurrent = 3
    /\ eOrder = <<5, 4>>
    /\ [i \in 1..5 |-> eOut[i].id] = <<1, 2, 3, 4, 5>>

\* C14: at most max_concurrent fetches are in flight at any moment, the tasks
\* of a batch are one consecutive slice of width max_concurrent, and no fetch
\* of a slice is started before every fetch of the earlier slices has ended
C14_BoundedInFlight ==
    /\ Cardinality(Running) <= max_concurrent
    /\ Cardinality(DOMAIN eTasks) <= max_concurrent
    /\ \A j \in DOMAIN eTasks : SliceStart(j) = eI + 1
    /\ \A j \in Started : \A i \in 1..(SliceStart(j) - 1) : i \in Finished

\* the whole second batch is in flight after the first one has ended
C14_Witness ==
    /\ max_concurrent = 2
    /\ Len(eIn) = 5
    /\ Running = {3, 4}
    /\ Len(updated_articles) = 2

----------------------------------------------------------------------------
(* Claims about the tracker *)

\* run_implementation of the tracker has been left
TrackerRunLeft ==
    /\ kind = "tracker"
    /\ "run_implementation" \in Elems(stages)
    /\ pc \in {"post", "cleanup", "callbacks", "done"}

\* deliveries of the latest fan-out made for ticker t to subscriber id
DeliveriesTo(t, id) ==
    {i \in 1..Len(deliveryLog) :
       deliveryLog[i].ticker = t /\ deliveryLog[i].id = id}

\* C15: a FAILED analysis job is recorded as one failed entry and the loop
\* goes on: every ticker of the snapshot gets its job and its entry, a
\* success entry stands for a committed upsert and (with a bot) a fan-out,
\* and with 3 tickers of which the second fails the summary says
\* successful = 2, failed = 1, with upsert and fan-out for the first and third
C15_FailedTickerDoesNotStopLoop ==
    /\ Len(trackerResults) <= Len(jobLog)
    /\ \A i \in 1..Len(trackerResults) :
          /\ trackerResults[i].ticker = tracked_tickers[i]
          /\ jobLog[i] = "FAILED" => trackerResults[i].status = "failed"
          /\ trackerResults[i].status = "success" =>
                /\ jobLog[i] = "COMPLETED"
                /\ tracked_tickers[i] \in Elems(upserts)
                /\ bot => tracked_tickers[i] \in Elems(fanouts)
    /\ TrackerRunLeft /\ tracked_tickers # <<>> =>
          /\ Len(jobLog) = Len(tracked_tickers)
          /\ Len(trackerResults) = Len(tracked_tickers)
          /\ Len(result) = 1
          /\ result[1].successful = Successful(trackerResults)
          /\ result[1].successful + result[1].failed = Len(tracked_tickers)
          /\ jobLog = <<"COMPLETED", "FAILED", "COMPLETED">>
             /\ upserts = <<1, 3>> =>
                /\ result[1].successful = 2
                /\ result[1].failed = 1
                /\ bot => fanouts = <<1, 3>>

C15_Witness ==
    /\ pc = "done"
    /\ bot
    /\ jobLog = <<"COMPLETED", "FAILED", "COMPLETED">>
    /\ upserts = <<1, 3>>
    /\ fanouts = <<1, 3>>
    /\ result[1].successful = 2
    /\ result[1].failed = 1

\* C16: at most one analysis job is executing at any moment, and the job of
\* a ticker is started only after the job, the upsert and the deliveries of
\* every earlier ticker have ended and its entry has been recorded
C16_TickersSequential ==
    /\ Cardinality(activeJobs) <= 1
    /\ activeJobs # {} =>
          /\ activeJobs = {tracked_tickers[tIdx]}
          /\ Len(jobLog) = tIdx - 1
          /\ Len(trackerResults) = tIdx - 1
          /\ nInflight = {}
          /\ nRemaining = <<>>

\* the second job runs after two deliveries were made for the first ticker
C16_Witness ==
    /\ activeJobs = {2}
    /\ upserts = <<1>>
    /\ Len(deliveryLog) = 2
    /\ trackerResults = <<Entry(1, "success")>>

C18_DeliveriesOverlap ==
    /\ Cardinality(nInflight) <= Len(discord_ids)
    /\ pc = "t_deliver" /\ nInflight # {} /\ nRemaining # <<>> =>
          ENABLED StartDelivery

\* C19: the result of every tracker run, the one for the empty snapshot
\* included, has the fields tickers_processed, successful, failed and
\* notifications_sent, the last one counting the deliveries that were made
C19_SummaryHasFourFields ==
    kind = "tracker" /\ Len(result) = 1 =>
       /\ {"tickers_processed", "successful", "failed", "notifications_sent"}
             \subseteq DOMAIN result[1]
       /\ result[1].tickers_processed = Len(tracked_tickers)
       /\ result[1].notifications_sent = deliveredOk

\* the tickers of the rows whose analysis job returned COMPLETED, in order
RECURSIVE CompletedTickers(_, _)
CompletedTickers(tickers, log) ==
    IF log = <<>> \/ tickers = <<>> THEN <<>>
    ELSE IF Head(log) = "COMPLETED"
         THEN <<Head(tickers)>> \o CompletedTickers(Tail(tickers), Tail(log))
         ELSE CompletedTickers(Tail(tickers), Tail(log))

\* the loop body is past the upsert of the current row
PastUpsert == pc \in {"t_notify", "t_deliver", "t_entry"}

\* C32: the upsert and the fan-out of a ticker happen only when its analysis
\* job returned COMPLETED, and the fan-out starts only after the upsert of
\* that ticker committed: every row past its upsert and every success entry
\* stands for one committed upsert, and nobody is notified otherwise
C32_NotifiedOnlyIfPersisted ==
    kind = "tracker" =>
       /\ IsSubsequence(upserts, CompletedTickers(tracked_tickers, jobLog))
       /\ IsSubsequence(fanouts, upserts)
       /\ Len(upserts) =
             Successful(trackerResults) + (IF PastUpsert THEN 1 ELSE 0)
       /\ PastUpsert =>
             /\ jobLog[tIdx] = "COMPLETED"
             /\ upserts[Len(upserts)] = CurrentTicker
       /\ pc = "t_deliver" => fanouts[Len(fanouts)] = CurrentTicker
       /\ \A i \in 1..Len(deliveryLog) :
             /\ jobLog[deliveryLog[i].row] = "COMPLETED"
             /\ deliveryLog[i].ticker \in Elems(upserts)
             /\ deliveryLog[i].ticker \in Elems(fanouts)

\* the first job failed, the upsert of the second ticker raised, and the
\* subscribers of the third were notified after its upsert
C32_Witness ==
    /\ kind = "tracker"
    /\ pc = "done"
    /\ tracked_tickers = <<1, 2, 3>>
    /\ jobLog = <<"FAILED", "COMPLETED", "COMPLETED">>
    /\ upserts = <<3>>
    /\ fanouts = <<3>>
    /\ \E i \in 1..Len(deliveryLog) : deliveryLog[i].ok
    /\ trackerResults = <<Entry(1, "failed"), Entry(2, "error"), Entry(3, "success")>>

\* number of entries with status st
CountStatus(entries, st) ==
    Cardinality({i \in 1..Len(entries) : entries[i].status = st})

\* C33: no failure inside the tracker loop is fatal to the run: when the
\* upsert of a ticker raises after a COMPLETED analysis the exception is
\* absorbed, the ticker gets one entry that is not a success, the remaining
\* tickers are processed and the tracker job ends COMPLETED
C33_LoopFailureNotFatal ==
    kind = "tracker" /\ tracked_tickers # <<>> =>
       /\ error # "run_implementation"
       /\ \A i \in 1..Len(trackerResults) :
             trackerResults[i].ticker = tracked_tickers[i]
       /\ pc = "t_loop" =>
             /\ Len(trackerResults) = tIdx
             /\ Len(jobLog) = tIdx
             /\ CountStatus(trackerResults, "success") = Len(upserts)
             /\ CountStatus(trackerResults, "failed") =
                   Len(jobLog) - Len(CompletedTickers(tracked_tickers, jobLog))
             /\ CountStatus(trackerResults, "error") =
                   Len(CompletedTickers(tracked_tickers, jobLog)) - Len(upserts)
       /\ TrackerRunLeft =>
             /\ Len(trackerResults) = Len(tracked_tickers)
             /\ Len(jobLog) = Len(tracked_tickers)
             /\ result # <<>>
       /\ pc = "done" => outcome = "COMPLETED"

\* the upsert of the first of three tickers raised, the two others were
\* analysed and persisted, and the tracker job completed
C33_Witness ==
    /\ kind = "tracker"
    /\ pc = "done"
    /\ outcome = "COMPLETED"
    /\ tracked_tickers = <<1, 2, 3>>
    /\ jobLog = <<"COMPLETED", "COMPLETED", "COMPLETED">>
    /\ upserts = <<2, 3>>
    /\ trackerResults = <<Entry(1, "error"), Entry(2, "success"), Entry(3, "success")>>
    /\ result[1].successful = 2
    /\ result[1].failed = 1

EntryStatuses == {"success", "failed", "error"}

\* C37: the summary a tracker run returns for a non-empty snapshot holds one
\* entry per row of the snapshot, in snapshot order, each with status success,
\* failed or error, and its successful and failed counts add up to
\* tickers_processed, the length of the snapshot.
C37_SummaryAccountsForSnapshot ==
    kind = "tracker" /\ tracked_tickers # <<>> /\ Len(result) = 1 =>
       /\ Len(result[1].results) = Len(tracked_tickers)
       /\ \A i \in 1..Len(result[1].results) :
             /\ result[1].results[i].ticker = tracked_tickers[i]
             /\ result[1].results[i].status \in EntryStatuses
       /\ result[1].tickers_processed = Len(tracked_tickers)
       /\ result[1].successful + result[1].failed = result[1].tickers_processed

\* a summary with one entry of each status
C37_Witness ==
    /\ kind = "tracker"
    /\ Len(result) = 1
    /\ Len(tracked_tickers) = 3
    /\ {result[1].results[i].status : i \in 1..3} = EntryStatuses
    /\ result[1].successful = 1
    /\ result[1].failed = 2

\* the threshold band of a score
BandOf(score) ==
    IF AtLeastThreshold(score) THEN "positive"
    ELSE IF AtMostNegThreshold(score) THEN "negative"
    ELSE "neutral"

\* C38: the result of an analysis run is consistent with itself:
\* articles_found is the length of its articles list, sentiment_score lies in
\* [-1, 1] (every verdict's probabilities lying in [0, 1]), and
\* sentiment_label is the threshold band of sentiment_score.
C38_ResultIsConsistent ==
    kind = "analysis" /\ Len(result) = 1 =>
       /\ result[1].articles_found = Len(result[1].articles)
       /\ RGeq(result[1].sentiment_score, Rat(-1, 1))
       /\ RLeq(result[1].sentiment_score, Rat(1, 1))
       /\ result[1].sentiment_label = BandOf(result[1].sentiment_score)

\* a result for a pool the deduplication shortened, with its score on the
\* positive threshold
C38_Witness ==
    /\ kind = "analysis"
    /\ Len(result) = 1
    /\ result[1].articles_found > 0
    /\ result[1].articles_found < ProviderTotal(fetched)
    /\ result[1].sentiment_score = [n |-> 3, d |-> 20]
    /\ result[1].sentiment_label = "positive"

----------------------------------------------------------------------------
(* Claims about the provider clients *)

\* C20: search_news of the three clients does not raise for a non-200
\* response, a malformed payload, a network error or an empty result set: it
\* returns the empty list, no exception that ends run_implementation comes
\* out of search_news, and a run whose providers all returned nothing does
\* not fail
C20_ProviderFailureGivesEmptyList ==
    /\ \A i \in 1..Len(fetched) :
          fetched[i].how # "ok" => fetched[i].res = <<>>
    /\ raisedBy # "search_news"
    /\ kind = "analysis" /\ fetched # <<>> /\ pc \in {"cleanup", "callbacks", "done"}
          /\ (\A i \in 1..Len(fetched) : fetched[i].res = <<>>) => error = "none"

\* all three providers failed, each in another way, and the job completed
\* with no articles
C20_Witness ==
    /\ pc = "done"
    /\ outcome = "COMPLETED"
    /\ [i \in 1..Len(fetched) |-> fetched[i].how]
          = <<"network_error", "http_error", "bad_payload">>
    /\ [i \in 1..Len(fetched) |-> fetched[i].p] = <<"newsapi", "yahoo", "finnhub">>
    /\ result # <<>> /\ result[1].articles_found = 0

\* C21: whatever timestamps the payload carries, no article a client returns
\* was published earlier than hours_back hours before the fetch
C21_NoArticleOlderThanWindow ==
    pDone => \A i \in 1..Len(pOut) : pOut[i].age <= hours_back

\* C22: every article a client returns has a title of at least ten
\* characters and a non-empty URL
C22_TitleAndUrlUsable ==
    pDone => \A i \in 1..Len(pOut) :
                /\ pOut[i].title_len >= MinTitleLen
                /\ pOut[i].url # ""

\* C23: a client never returns more than max_articles articles, however many
\* items the payload holds
C23_AtMostMaxArticles ==
    pDone => Len(pOut) <= max_articles

----------------------------------------------------------------------------
(* Claims about the classifier *)

\* C24: a classification failure for one article (tokenizing or inference
\* raising, the model failing to load, a text of fewer than ten characters)
\* gives the neutral verdict for that article and never raises:
\* analyze_multiple returns one verdict per article, in order
C24_ClassificationFailureIsNeutral ==
    /\ ~cRaised
    /\ cPc = "done" => Len(cResults) = Len(cIn)
    /\ \A i \in 1..Len(cResults) :
          cIn[i].text_len < MinTextLen \/ cIn[i].infer.raises
              => cResults[i] = NeutralVerdict

----------------------------------------------------------------------------
(* Claims about the entry points *)

\* C27: when a credential an entry point requires is missing, the entry
\* point aborts before anything is executed: no provider fetch, no analysis
\* job and no database write
C27_MissingCredentialAborts ==
    ~(Required(entry) \subseteq env_keys) =>
        /\ attempts \cap {"provider_fetch", "job_execute"} = {}
        /\ rows = {}

\* C28: when the confirmation wait of subscribe ends by the timeout or by
\* the cancel reaction, no stock row and no subscription row is written,
\* and the wait always ends
C28_NoActionWithoutConfirmation ==
    /\ [](waitEnd \in {"cancel", "timeout"} => rows = {} /\ xPc = "done")
    /\ (xPc = "s_wait") ~> (xPc # "s_wait")

\* the user did not react, the timeout ended the wait, and the command
\* returned without writing
C28_Witness ==
    /\ entry = "subscribe"
    /\ waitEnd = "timeout"
    /\ xPc = "done"
    /\ replies = <<"confirm?", "timeout">>
    /\ rows = {}
    /\ cmd.db_ok /\ ~cmd.stock_exists /\ ~cmd.subscribed

----------------------------------------------------------------------------
(* Claims about the commands and the tracker on the two tables *)

\* the stock row of ticker t has its two analysis fields set
Analysed(tbl, t) ==
    \E r \in FindStock(tbl, t) :
        r.last_analysis_timestamp # Null /\ r.last_sentiment_score # Null

\* the analysis fields of the row of ticker t
AnalysisFields(tbl, t) ==
    {<<r.last_analysis_timestamp, r.last_sentiment_score>> : r \in FindStock(tbl, t)}

\* the step is the upsert the tracker makes for ticker t
TrackerUpsertOf(t) == fPc = "job" /\ fSnapshot[fIdx].ticker = t

\* C34: the tracker is the sole writer of the analysis fields of a stock:
\* once the row of a ticker has a timestamp and a score, no step of a
\* subscribe, unsubscribe or stockinfo command changes them, and no step at
\* all sets them back to null
C34_TrackerSoleWriter ==
    [][\A t \in FleetTickers :
          Analysed(stocks, t) =>
             /\ Analysed(stocks', t)
             /\ AnalysisFields(stocks', t) # AnalysisFields(stocks, t)
                   => TrackerUpsertOf(t)]_vars

\* a user subscribed to a ticker after its analysis was stored, and the
\* analysis is still there
C34_Witness ==
    \E r \in stocks, s \in subscriptions :
       /\ r.ticker = s.ticker
       /\ r.last_analysis_timestamp # Null
       /\ r.last_sentiment_score # Null
       /\ s.subscribed_at > r.last_analysis_timestamp

\* the tickers of a list or set of rows
TickersOf(rowSeq) == {rowSeq[i].ticker : i \in DOMAIN rowSeq}

\* the ids the fan-out of a row of the snapshot was sent to
NotifiedOf(row) == {notified[i].id : i \in {j \in DOMAIN notified : notified[j].row = row}}

\* the fan-out of a row of the snapshot is over
FanoutOver(row) == row < fIdx \/ fPc # "deliver"

\* C35: the rows a tracker run analyses are the rows of the snapshot read at
\* its start, in order, whatever subscribe and unsubscribe commands do during the
\* run, so that the tickers of a returned run are exactly those of the
\* snapshot; the recipients of the notification of a row are subscribers
\* stored when its fan-out began, all of them once the fan-out is over.
C35_RunAnalysesItsSnapshot ==
    runs > 0 =>
       /\ {fSnapshot[i] : i \in DOMAIN fSnapshot} = atStart
       /\ fIdx <= Len(fSnapshot)
       /\ analysed = SubSeq(fSnapshot, 1, fIdx)
       /\ fPc = "returned" =>
             TickersOf(analysed) = {r.ticker : r \in atStart}
       /\ \A i \in DOMAIN notified :
             \E k \in DOMAIN fanoutLog : fanoutLog[k].row = notified[i].row
       /\ \A k \in DOMAIN fanoutLog :
             /\ NotifiedOf(fanoutLog[k].row) \subseteq fanoutLog[k].stored
             /\ FanoutOver(fanoutLog[k].row) =>
                   NotifiedOf(fanoutLog[k].row) = fanoutLog[k].stored

\* a returned run during which the tracked rows changed and that notified
\* someone who is no longer subscribed
C35_Witness ==
    /\ fPc = "returned"
    /\ runs > 0
    /\ analysed # <<>>
    /\ TrackedRows(subscriptions) # atStart
    /\ \E i \in DOMAIN notified :
          notified[i].id \notin Subscribers(subscriptions, notified[i].ticker)

\* C36: in one tracker run no ticker is analysed twice and no subscriber is
\* sent two notifications for one ticker, whatever the subscriptions table
\* holds.
C36_OncePerTickerAndSubscriber ==
    /\ \A i, j \in DOMAIN analysed :
          analysed[i].ticker = analysed[j].ticker => i = j
    /\ \A i, j \in DOMAIN notified :
          notified[i].ticker = notified[j].ticker /\ notified[i].id = notified[j].id
             => i = j

----------------------------------------------------------------------------
(* Claims about the size of the article pool *)

\* every provider asked returned at most max_articles articles
ProvidersRespectMax ==
    \A i \in DOMAIN poolAsked : poolAsked[i].n <= JobMaxArticles

AskedProviders == {poolAsked[i].provider : i \in DOMAIN poolAsked}

\* C40: when every provider respects max_articles = 15, the pool handed to
\* enrichment and classification holds at most 19 articles: at most 15 when
\* NewsAPI alone was asked, at most 4 + 15 when a fallback was asked, a
\* fallback being asked only while the pool holds fewer than 5 articles.
C40_PoolAtMostNineteen ==
    /\ poolPc = "enrich" /\ ProvidersRespectMax =>
          /\ Len(poolArticles) <= 19
          /\ AskedProviders = {"newsapi"} => Len(poolArticles) <= 15
          /\ AskedProviders # {"newsapi"} => Len(poolArticles) <= 4 + 15
    /\ \A i \in DOMAIN poolAsked :
          i > 1 => /\ poolAsked[1].n < 5
                   /\ i > 2 => poolAsked[2].provider = "yahoo"

\* four NewsAPI articles and fifteen new ones from Yahoo: a pool of 19
C40_Witness ==
    /\ poolPc = "enrich"
    /\ ProvidersRespectMax
    /\ poolAsked = <<Asked("newsapi", [i \in 1..4 |-> i]), Asked("yahoo", [i \in 1..15 |-> i])>>
    /\ Len(poolArticles) = 19

====
